---- MODULE Spec2Model ----
(***************************************************************************)
(* Feature-enrichment pipeline of the rental listings project             *)
(* (src/utils/preprocess.py, src/scripts/pickle_spatial_mapping.py).      *)
(*                                                                         *)
(* The pipeline is a library of batch functions over tables.  A table is  *)
(* a sequence of rows (records); a Python string is a sequence of         *)
(* one-character strings; a nullable cell is None (<<>>) or Some(v)       *)
(* (<<v>>).  The state is the PreprocessUtils instance (its lazily loaded  *)
(* suburb mapping), the pickled mapping file, and the call in progress:   *)
(* the function called, its arguments and what it returned.               *)
(***************************************************************************)
EXTENDS Integers, Sequences, FiniteSets, TLC

VARIABLES
    fn,                       \* the function of PreprocessUtils being called
    args,                     \* its arguments
    ret,                      \* what it returned (None until it returns)
    pc,                       \* "call" before the call, "done" after it
    mapping_file,             \* contents of mapping.pkl (build_mapping's dict)
    suburb_mapping,           \* self.suburb_mapping (None until first use)
    inverted_suburb_mapping,  \* self.inverted_suburb_mapping
    calls,                    \* history of map_suburb calls: <<input, output>>
    file_reads,               \* number of times mapping.pkl has been read
    files,                    \* the files written by the program, by name
    locals                    \* variables of the run or pipeline object under way

\* The PreprocessUtils instance, and the files and history around it.
instance == <<suburb_mapping, inverted_suburb_mapping>>

world == <<mapping_file, calls, file_reads, files, locals>>

vars == <<fn, args, ret, pc, instance, world>>

(***************************************************************************)
(* Nullable values and Python strings                                     *)
(***************************************************************************)
None == <<>>
Some(v) == <<v>>
IsNull(x) == x = <<>>
NotNull(x) == x # <<>>
Val(x) == x[1]

\* Outcome of a call that raised instead of returning.
Raised == "raised"

Digits == {"0", "1", "2", "3", "4", "5", "6", "7", "8", "9"}

DigitSeq == <<"0", "1", "2", "3", "4", "5", "6", "7", "8", "9">>

DigitVal(c) == (CHOOSE i \in 1..10 : DigitSeq[i] = c) - 1

RECURSIVE Pow(_, _)
Pow(b, n) == IF n = 0 THEN 1 ELSE b * Pow(b, n - 1)

RECURSIVE Concat(_)
Concat(ss) == IF ss = <<>> THEN <<>> ELSE Head(ss) \o Concat(Tail(ss))

\* Sequences over S of length 0..n.
SeqsUpTo(S, n) == UNION {[1..k -> S] : k \in 0..n}

UpperLetters ==
    <<"A", "B", "C", "D", "E", "F", "G", "H", "I", "J", "K", "L", "M",
      "N", "O", "P", "Q", "R", "S", "T", "U", "V", "W", "X", "Y", "Z">>

LowerLetters ==
    <<"a", "b", "c", "d", "e", "f", "g", "h", "i", "j", "k", "l", "m",
      "n", "o", "p", "q", "r", "s", "t", "u", "v", "w", "x", "y", "z">>

\* str.lower() on one character.
LowerChar(c) ==
    IF \E i \in 1..26 : UpperLetters[i] = c
    THEN LowerLetters[CHOOSE i \in 1..26 : UpperLetters[i] = c]
    ELSE c

Lower(s) == [i \in 1..Len(s) |-> LowerChar(s[i])]

\* s with every character of the set cs removed.
RemoveChars(s, cs) == SelectSeq(s, LAMBDA c : c \notin cs)

\* Value of a string of digits.
RECURSIVE DigitsToInt(_)
DigitsToInt(s) ==
    IF s = <<>> THEN 0
    ELSE 10 * DigitsToInt(SubSeq(s, 1, Len(s) - 1)) + DigitVal(s[Len(s)])

\* First position >= i that is past the end of s or holds no digit.
RECURSIVE DigitRunEnd(_, _)
DigitRunEnd(s, i) ==
    IF i > Len(s) \/ s[i] \notin Digits THEN i ELSE DigitRunEnd(s, i + 1)

\* A decimal magnitude n/d, and equality of two of them as numbers.
Num(n, d) == [n |-> n, d |-> d]

RECURSIVE GCD(_, _)
GCD(a, b) == IF b = 0 THEN a ELSE GCD(b, a % b)

NumEq(a, b) ==
    LET g == GCD(a.d, b.d) IN a.n * (b.d \div g) = b.n * (a.d \div g)

(***************************************************************************)
(* extract_rental_price (preprocess.py 136-239)                           *)
(***************************************************************************)

\* r"(\d+(?:\.\d+)?)" searched in s: the first number, as n/d.
price_value(s) ==
    LET starts == {i \in 1..Len(s) : s[i] \in Digits} IN
    IF starts = {} THEN None
    ELSE LET i == CHOOSE x \in starts : \A y \in starts : x <= y
             j == DigitRunEnd(s, i)
             frac == j + 1 <= Len(s) /\ s[j] = "." /\ s[j + 1] \in Digits
             k == IF frac THEN DigitRunEnd(s, j + 1) ELSE j
         IN  IF frac
             THEN Some(Num(DigitsToInt(SubSeq(s, i, j - 1) \o SubSeq(s, j + 1, k - 1)),
                           Pow(10, k - j - 1)))
             ELSE Some(Num(DigitsToInt(SubSeq(s, i, j - 1)), 1))

\* The alternation of the frequency regex, in list order.  The patterns are
\* joined unescaped, so "." in "p.w." and "p.w" matches any character.
freq_keywords ==
    << <<"p", "w">>,
       <<"p", "e", "r", "w", "e", "e", "k">>,
       <<"w", "e", "e", "k", "l", "y">>,
       <<"p", "/", "w">>,
       <<"w", "k">>,
       <<"p", ".", "w", ".">>,
       <<"/", "w", "k">>,
       <<"/", "w">>,
       <<"/", "w", "e", "e", "k">>,
       <<"p", ".", "w">>,
       <<"p", "e", "r", "m", "o", "n", "t", "h">>,
       <<"p", "m">>,
       <<"c", "a", "l", "e", "n", "d", "a", "r">>,
       <<"m", "o", "n", "t", "h", "l", "y">>,
       <<"c", "a", "l", "e", "n", "d", "e", "r">>,
       <<"p", "e", "r", "c", "a", "l", "e", "n", "d", "a", "r", "m", "o", "n", "t", "h">>,
       <<"p", "e", "r", "c", "a", "l", "e", "n", "d", "e", "r", "m", "o", "n", "t", "h">> >>

\* Keys of frequency_mapping and the category each maps to.
WeeklyKeys ==
    { <<"p", "w">>, <<"p", ".", "w", ".">>,
      <<"p", "e", "r", "w", "e", "e", "k">>, <<"w", "e", "e", "k", "l", "y">>,
      <<"p", "/", "w">>, <<"w", "k">>, <<"p", ".", "w">>, <<"/", "w", "k">>,
      <<"/", "w">>, <<"/", "w", "e", "e", "k">> }

MonthlyKeys ==
    { <<"p", "m">>, <<"p", "e", "r", "m", "o", "n", "t", "h">>,
      <<"c", "a", "l", "e", "n", "d", "a", "r">>,
      <<"c", "a", "l", "e", "n", "d", "e", "r">>,
      <<"m", "o", "n", "t", "h", "l", "y">>,
      <<"p", "e", "r", "c", "a", "l", "e", "n", "d", "a", "r", "m", "o", "n", "t", "h">>,
      <<"p", "e", "r", "c", "a", "l", "e", "n", "d", "e", "r", "m", "o", "n", "t", "h">> }

\* frequency_mapping.get(kw): the category, or None for a text that is no key.
frequency_mapping(kw) ==
    IF IsNull(kw) THEN None
    ELSE IF Val(kw) \in WeeklyKeys THEN Some("weekly")
    ELSE IF Val(kw) \in MonthlyKeys THEN Some("monthly")
    ELSE None

\* Regex pattern pat matches s at position pos ("." matches any character).
MatchAt(s, pos, pat) ==
    /\ pos + Len(pat) - 1 <= Len(s)
    /\ \A q \in 1..Len(pat) : pat[q] = "." \/ pat[q] = s[pos + q - 1]

\* Positions just past one match of \d+(?:\.\d+)? that starts at i.
NumEnds(s, i) ==
    IF i > Len(s) \/ s[i] \notin Digits THEN {}
    ELSE LET j == DigitRunEnd(s, i) IN
         ((i + 1)..j) \cup
         (IF j + 1 <= Len(s) /\ s[j] = "." /\ s[j + 1] \in Digits
          THEN (j + 2)..DigitRunEnd(s, j + 1) ELSE {})

\* Positions just past a match of (\d+(?:\.\d+)?)+ that starts at i.
RECURSIVE RepEndsFrom(_, _, _, _)
RepEndsFrom(s, i, p, R) ==
    IF p > Len(s) THEN R
    ELSE RepEndsFrom(s, i, p + 1,
                     IF p = i \/ p \in R THEN R \cup NumEnds(s, p) ELSE R)

RepEnds(s, i) == RepEndsFrom(s, i, i, {})

\* Index of the first alternative of freq_keywords matching s at e (0: none).
FirstKeywordAt(s, e) ==
    LET hits == {a \in 1..Len(freq_keywords) : MatchAt(s, e, freq_keywords[a])} IN
    IF hits = {} THEN 0 ELSE CHOOSE a \in hits : \A b \in hits : a <= b

\* r"(\d+(?:\.\d+)?)+(kw1|kw2|...)" searched in s: the text captured by the
\* keyword group of the leftmost match, None when nothing matches.
price_frequency_raw(s) ==
    LET ok(i) == {e \in RepEnds(s, i) : FirstKeywordAt(s, e) # 0}
        starts == {i \in 1..Len(s) : ok(i) # {}}
    IN  IF starts = {} THEN None
        ELSE LET i == CHOOSE x \in starts : \A y \in starts : x <= y
                 e == CHOOSE x \in ok(i) : \A y \in ok(i) : x >= y
                 a == FirstKeywordAt(s, e)
             IN  Some(SubSeq(s, e, e + Len(freq_keywords[a]) - 1))

\* rental_price_copy.str.match(r"^[\d\.]+$")
numeric_mask(s) == Len(s) > 0 /\ \A i \in 1..Len(s) : s[i] \in Digits \cup {"."}

\* The cleaned string: '$' and ',' removed, lowercased, spaces removed.
clean_price(s) == RemoveChars(Lower(RemoveChars(s, {"$", ","})), {" "})

\* "weekly", "monthly" or "unknown" for a cleaned string.
price_frequency(c) ==
    LET mapped == frequency_mapping(price_frequency_raw(c)) IN
    IF NotNull(mapped) THEN Val(mapped)
    ELSE IF numeric_mask(c) THEN "weekly"
    ELSE "unknown"

\* extract_rental_price on one cell: Some(weekly rent n/d) or None.
extract_rental_price(s) ==
    LET c == clean_price(s)
        v == price_value(c)
        f == price_frequency(c)
    IN  IF IsNull(v) THEN None
        ELSE IF f = "weekly" THEN v
        ELSE IF f = "monthly" THEN Some(Num(Val(v).n, Val(v).d * 4))
        ELSE None

(***************************************************************************)
(* Specification of one extract_rental_price call                          *)
(***************************************************************************)

\* No suburb mapping, file or stepwise call is involved in the call.
MappingIdle ==
    /\ mapping_file = <<>>
    /\ suburb_mapping = None
    /\ inverted_suburb_mapping = None
    /\ calls = <<>>
    /\ file_reads = 0
    /\ files = <<>>
    /\ locals = <<>>

MaxPriceTokens == 3

\* Pieces the price strings of the model are put together from.
PriceTokens ==
    { <<"$">>, <<" ">>, <<",">>, <<".">>, <<"4", "5">>, <<"1">>,
      <<"8", "0">>, <<"4", ".", "5">>,
      <<"p", "w">>, <<"P", "W">>, <<"p", "e", "r", " ", "w", "e", "e", "k">>,
      <<"p", ".", "w", ".">>, <<"/", "w">>,
      <<"p", "c", "m">>, <<"p", "m">>, <<"p", "e", "r", " ", "m", "o", "n", "t", "h">>,
      <<"p", "e", "r", " ", "c", "a", "l", "e", "n", "d", "a", "r", " ",
        "m", "o", "n", "t", "h">>,
      <<"x">>, <<"p", "x", "w", "x">> }

PriceStrings == {Concat(ts) : ts \in SeqsUpTo(PriceTokens, MaxPriceTokens)}

InitPrice ==
    /\ fn = "extract_rental_price"
    /\ args \in PriceStrings
    /\ ret = None
    /\ pc = "call"
    /\ MappingIdle

ExtractRentalPrice ==
    /\ pc = "call"
    /\ fn = "extract_rental_price"
    /\ ret' = extract_rental_price(args)
    /\ pc' = "done"
    /\ UNCHANGED <<fn, args, instance, world>>

NextPrice == ExtractRentalPrice

SpecPrice == InitPrice /\ [][NextPrice]_vars

\* A string that is one decimal number: digits, optionally "." and digits.
IsNumber(t) ==
    /\ Len(t) > 0
    /\ \A i \in 1..Len(t) : t[i] \in Digits \cup {"."}
    /\ t[1] \in Digits /\ t[Len(t)] \in Digits
    /\ Cardinality({i \in 1..Len(t) : t[i] = "."}) <= 1

\* The number such a string denotes, as n/d.
NumberOf(t) ==
    LET dots == {i \in 1..Len(t) : t[i] = "."} IN
    IF dots = {} THEN Num(DigitsToInt(t), 1)
    ELSE LET j == CHOOSE i \in dots : TRUE IN
         Num(DigitsToInt(SubSeq(t, 1, j - 1) \o SubSeq(t, j + 1, Len(t))),
             Pow(10, Len(t) - j))

\* The cleaned forms of the weekly and monthly keywords the specification names.
WeeklyWords == WeeklyKeys

MonthlyWords == MonthlyKeys \cup { <<"p", "c", "m">> }

\* c is a number immediately followed by one of the keywords ws, and nothing else.
NumberThenWord(c, ws) ==
    \E k \in 1..Len(c) :
        IsNumber(SubSeq(c, 1, k)) /\ SubSeq(c, k + 1, Len(c)) \in ws

NumberBefore(c, ws) ==
    NumberOf(SubSeq(c, 1, CHOOSE k \in 1..Len(c) :
        IsNumber(SubSeq(c, 1, k)) /\ SubSeq(c, k + 1, Len(c)) \in ws))

\* Somewhere in c a digit is immediately followed by one of the keywords ws.
HasDigitThenWord(c, ws) ==
    \E e \in 2..Len(c) : \E w \in ws :
        /\ c[e - 1] \in Digits
        /\ e + Len(w) - 1 <= Len(c)
        /\ SubSeq(c, e, e + Len(w) - 1) = w

\* The contract of extract_rental_price for input s and result r, with ms the
\* monthly keywords.
PriceContract(s, r, ms) ==
    LET c == clean_price(s) IN
    /\ NumberThenWord(c, WeeklyWords) =>
           NotNull(r) /\ NumEq(Val(r), NumberBefore(c, WeeklyWords))
    /\ NumberThenWord(c, ms) =>
           NotNull(r) /\ NumEq(Val(r), Num(NumberBefore(c, ms).n, NumberBefore(c, ms).d * 4))
    /\ IsNumber(c) => NotNull(r) /\ NumEq(Val(r), NumberOf(c))
    /\ (~HasDigitThenWord(c, WeeklyWords \cup ms) /\ ~numeric_mask(c)) => IsNull(r)

\* C1: a number followed by a weekly keyword yields the number, a number
\* followed by a monthly keyword (pcm, per month, per calendar month, ...)
\* yields the number divided by 4, a purely numeric string yields the number,
\* and a string with no recognisable frequency yields null.
C1_PriceContract ==
    (fn = "extract_rental_price" /\ pc = "done") =>
        PriceContract(args, ret, MonthlyWords)

\* The same contract over the monthly keywords the code lists (without pcm).
PriceContractListedKeywords ==
    (fn = "extract_rental_price" /\ pc = "done") =>
        PriceContract(args, ret, MonthlyKeys)

\* A monthly price written with a listed keyword has been divided by 4.
PriceMonthlyDivided ==
    /\ fn = "extract_rental_price" /\ pc = "done"
    /\ NumberThenWord(clean_price(args), MonthlyKeys)
    /\ NotNull(ret)

(***************************************************************************)
(* build_mapping (pickle_spatial_mapping.py 17-31)                         *)
(***************************************************************************)

\* Characters in code point order, for sorted().
CodeOrder ==
    <<" ", "-", ".">> \o DigitSeq \o UpperLetters \o <<"_">> \o LowerLetters

Ord(c) == CHOOSE i \in 1..Len(CodeOrder) : CodeOrder[i] = c

\* a < b as Python compares strings.
RECURSIVE StrLess(_, _)
StrLess(a, b) ==
    IF b = <<>> THEN FALSE
    ELSE IF a = <<>> THEN TRUE
    ELSE IF Head(a) # Head(b) THEN Ord(Head(a)) < Ord(Head(b))
    ELSE StrLess(Tail(a), Tail(b))

\* sorted(S) for a set of strings.
RECURSIVE SortedStrings(_)
SortedStrings(S) ==
    IF S = {} THEN <<>>
    ELSE LET m == CHOOSE x \in S : \A y \in S \ {x} : StrLess(x, y)
         IN  <<m>> \o SortedStrings(S \ {m})

\* First position >= i where sep starts in s (Len(s) + 1: nowhere).
RECURSIVE FindFrom(_, _, _)
FindFrom(s, sep, i) ==
    IF i + Len(sep) - 1 > Len(s) THEN Len(s) + 1
    ELSE IF SubSeq(s, i, i + Len(sep) - 1) = sep THEN i
    ELSE FindFrom(s, sep, i + 1)

\* s.split(sep)
RECURSIVE Split(_, _)
Split(s, sep) ==
    LET i == FindFrom(s, sep, 1) IN
    IF i > Len(s) THEN <<s>>
    ELSE <<SubSeq(s, 1, i - 1)>> \o Split(SubSeq(s, i + Len(sep), Len(s)), sep)

\* A dict entry key: value; is_list tells a list value from a single item.
Entry(k, v, l) == [key |-> k, value |-> v, is_list |-> l]

\* build_mapping on the suburb column of the panel and the LOCALITY column.
build_mapping(suburbs, localities) ==
    LET suburb_values == {Lower(x) : x \in suburbs}
        locality_values == {Lower(x) : x \in localities}
        combos == SortedStrings(suburb_values \ locality_values)
    IN  [i \in 1..Len(combos) |->
            Entry(combos[i],
                  SelectSeq(Split(combos[i], <<"-">>), LAMBDA part : part # <<>>),
                  TRUE)]

(***************************************************************************)
(* _load_suburb_mapping, _create_inverted_mapping, map_suburb              *)
(* (preprocess.py 29-81)                                                   *)
(***************************************************************************)

\* inverted[item] = key, a later assignment replacing an earlier one.
DictSet(inv, item, key) ==
    [x \in DOMAIN inv \cup {item} |-> IF x = item THEN key ELSE inv[x]]

RECURSIVE SetItems(_, _, _)
SetItems(inv, items, key) ==
    IF items = <<>> THEN inv
    ELSE SetItems(DictSet(inv, Head(items), key), Tail(items), key)

RECURSIVE InvertFrom(_, _)
InvertFrom(entries, inv) ==
    IF entries = <<>> THEN inv
    ELSE LET e == Head(entries) IN
         InvertFrom(Tail(entries),
                    IF e.is_list THEN SetItems(inv, e.value, e.key)
                    ELSE DictSet(inv, e.value, e.key))

create_inverted_mapping(mapping) == InvertFrom(mapping, <<>>)

\* map_suburb on one cell without lowercasing it first.
map_suburb_cell_NoLower(inv, suburb) ==
    IF IsNull(suburb) THEN None
    ELSE IF Val(suburb) \in DOMAIN inv THEN Some(inv[Val(suburb)])
    ELSE suburb

\* map_suburb on one cell of the series, with the inverted mapping inv:
\* lowercase, look up, and fill a miss with the lowercased name.
map_suburb_cell(inv, suburb) ==
    IF IsNull(suburb) THEN None
    ELSE LET low == Lower(Val(suburb)) IN
         IF low \in DOMAIN inv THEN Some(inv[low]) ELSE Some(low)

\* _load_suburb_mapping without the "is None" test: the file is read on
\* every call.
LoadSuburbMapping_Always ==
    /\ suburb_mapping' = Some(mapping_file)
    /\ inverted_suburb_mapping' = Some(create_inverted_mapping(mapping_file))
    /\ file_reads' = file_reads + 1

\* The instance after _load_suburb_mapping: the file is read only when
\* self.suburb_mapping is None.
LoadSuburbMapping ==
    IF IsNull(suburb_mapping)
    THEN /\ suburb_mapping' = Some(mapping_file)
         /\ inverted_suburb_mapping' = Some(create_inverted_mapping(mapping_file))
         /\ file_reads' = file_reads + 1
    ELSE UNCHANGED <<suburb_mapping, inverted_suburb_mapping, file_reads>>

(***************************************************************************)
(* Specification of map_suburb calls on one instance                       *)
(***************************************************************************)
MaxSuburbCalls == 4

\* Suburb names of the panel data and of the locality polygons.
PanelPool ==
    { <<"A", "-", "b">>, <<"a", "-", "c">>, <<"c">>, <<"b", "-">> }

LocalityPool == { <<"b">>, <<"C">> }

MappingFiles ==
    {build_mapping(P, L) : P \in SUBSET PanelPool, L \in SUBSET LocalityPool}

SuburbInputs ==
    { <<"a">>, <<"A">>, <<"b">>, <<"a", "-", "b">>, <<"d">>, <<"D">> }

InitSuburb ==
    /\ fn = "map_suburb"
    /\ args = None
    /\ ret = None
    /\ pc = "call"
    /\ mapping_file \in MappingFiles
    /\ suburb_mapping = None
    /\ inverted_suburb_mapping = None
    /\ calls = <<>>
    /\ file_reads = 0
    /\ files = <<>>
    /\ locals = <<>>

\* map_suburb called on a one-cell series holding name.
MapSuburbOn(name) ==
    /\ fn = "map_suburb"
    /\ Len(calls) < MaxSuburbCalls
    /\ LoadSuburbMapping
    /\ args' = Some(name)
    /\ ret' = map_suburb_cell(Val(inverted_suburb_mapping'), Some(name))
    /\ calls' = Append(calls, <<name, Val(ret')>>)
    /\ pc' = "done"
    /\ UNCHANGED <<fn, mapping_file, files, locals>>

MapSuburb == \E name \in SuburbInputs : MapSuburbOn(name)

\* map_suburb called again on what the previous call returned.
MapSuburbAgain == pc = "done" /\ MapSuburbOn(Val(ret))

NextSuburb == MapSuburb \/ MapSuburbAgain

SpecSuburb == InitSuburb /\ [][NextSuburb]_vars

\* The variants listed in the mapping file, and the keys listing a variant.
FileVariants ==
    UNION {IF mapping_file[i].is_list
           THEN {mapping_file[i].value[j] : j \in 1..Len(mapping_file[i].value)}
           ELSE {mapping_file[i].value} : i \in 1..Len(mapping_file)}

FileKeysOf(v) ==
    {mapping_file[i].key : i \in
        {k \in 1..Len(mapping_file) :
            IF mapping_file[k].is_list
            THEN \E j \in 1..Len(mapping_file[k].value) : mapping_file[k].value[j] = v
            ELSE mapping_file[k].value = v}}

\* C8: a variant of the mapping is mapped to the same canonical name whatever
\* its casing; a name that is no variant is returned lowercased and otherwise
\* unchanged; map_suburb applied again to what it returned for an unmapped
\* name returns it unchanged.
C8_MapSuburb ==
    fn = "map_suburb" =>
        /\ \A i \in 1..Len(calls) : \A j \in 1..Len(calls) :
               (Lower(calls[i][1]) = Lower(calls[j][1])
                    /\ Lower(calls[i][1]) \in FileVariants)
               => /\ calls[i][2] = calls[j][2]
                  /\ calls[i][2] \in FileKeysOf(Lower(calls[i][1]))
        /\ \A i \in 1..Len(calls) :
               Lower(calls[i][1]) \notin FileVariants
               => calls[i][2] = Lower(calls[i][1])
        /\ \A i \in 1..(Len(calls) - 1) :
               (Lower(calls[i][1]) \notin FileVariants
                    /\ calls[i + 1][1] = calls[i][2])
               => calls[i + 1][2] = calls[i + 1][1]

\* A variant was looked up in two casings, and the result for an unmapped
\* mixed-case name was looked up again.
C8_Witness ==
    /\ fn = "map_suburb" /\ Len(calls) = 4
    /\ calls[1][1] # calls[2][1]
    /\ Lower(calls[1][1]) = Lower(calls[2][1])
    /\ Lower(calls[1][1]) \in FileVariants
    /\ calls[1][2] = calls[2][2]
    /\ calls[3][1] # Lower(calls[3][1])
    /\ Lower(calls[3][1]) \notin FileVariants
    /\ calls[4][1] = calls[3][2]
    /\ calls[4][2] = calls[3][2]

(***************************************************************************)
(* Tables                                                                  *)
(***************************************************************************)

\* The rows of df at the positions I, in table order.
RECURSIVE Pick(_, _)
Pick(df, I) ==
    IF I = {} THEN <<>>
    ELSE LET m == CHOOSE i \in I : \A j \in I : i <= j
         IN  <<df[m]>> \o Pick(df, I \ {m})

\* df[mask]: the rows satisfying Keep.
Filter(df, Keep(_)) == Pick(df, {i \in 1..Len(df) : Keep(df[i])})

\* The column col of df, as a sequence of cells.
Column(df, col) == [i \in 1..Len(df) |-> df[i][col]]

(***************************************************************************)
(* impute_by_property_type_mode (preprocess.py 241-285)                    *)
(***************************************************************************)

\* Series.mode()[0] if len(Series.mode()) > 0 else None: the most frequent
\* non-null value, the smallest of them on a tie; None when all are null.
Mode(cells) ==
    LET vals == {Val(cells[i]) : i \in {k \in 1..Len(cells) : NotNull(cells[k])}}
        cnt(v) == Cardinality({i \in 1..Len(cells) : cells[i] = Some(v)})
    IN  IF vals = {} THEN None
        ELSE Some(CHOOSE v \in vals :
                    \A w \in vals : cnt(v) > cnt(w) \/ (cnt(v) = cnt(w) /\ v <= w))

\* df.groupby(property_type_column)[column_name].agg(mode): one entry per
\* property type of the table, None for a type whose cells are all null.
mode_by_type(df, column_name, property_type_column) ==
    [t \in {df[i][property_type_column] : i \in 1..Len(df)} |->
        Mode(Column(Filter(df, LAMBDA r : r[property_type_column] = t), column_name))]

overall_mode(df, column_name) == Mode(Column(df, column_name))

\* mode_by_type.get(prop_type, overall_mode): the default is taken only for a
\* key that is absent, and every property type of the table is a key.
fill_value(df, column_name, property_type_column, prop_type) ==
    LET modes == mode_by_type(df, column_name, property_type_column) IN
    IF prop_type \in DOMAIN modes THEN modes[prop_type]
    ELSE overall_mode(df, column_name)

\* The imputed column: a null cell takes the fill value of its row's
\* property type unless that fill value is None.
impute_by_property_type_mode(df, column_name, property_type_column) ==
    [i \in 1..Len(df) |->
        LET f == fill_value(df, column_name, property_type_column,
                            df[i][property_type_column])
        IN  IF IsNull(df[i][column_name]) /\ NotNull(f) THEN f
            ELSE df[i][column_name]]

(***************************************************************************)
(* Specification of one impute_by_property_type_mode call                  *)
(***************************************************************************)
MaxModeRows == 4

ModeRows ==
    [property_type : {"house", "flat"}, bedrooms : {None, Some(1), Some(2)}]

InitMode ==
    /\ fn = "impute_by_property_type_mode"
    /\ args \in [df : SeqsUpTo(ModeRows, MaxModeRows), column_name : {"bedrooms"}]
    /\ ret = None
    /\ pc = "call"
    /\ MappingIdle

ImputeByPropertyTypeMode ==
    /\ pc = "call"
    /\ fn = "impute_by_property_type_mode"
    /\ ret' = impute_by_property_type_mode(args.df, args.column_name, "property_type")
    /\ pc' = "done"
    /\ UNCHANGED <<fn, args, instance, world>>

NextMode == ImputeByPropertyTypeMode

SpecMode == InitMode /\ [][NextMode]_vars

\* The cells of column col in the rows of df whose property type is t.
TypeCells(df, col, t) ==
    Column(Filter(df, LAMBDA r : r.property_type = t), col)

\* C6: every null cell is filled with the mode of the non-null values of its
\* property type; when the property type has no non-null value at all, with
\* the mode of the whole column.
C6_ModeImputation ==
    (fn = "impute_by_property_type_mode" /\ pc = "done") =>
        \A i \in 1..Len(args.df) :
            IsNull(args.df[i].bedrooms) =>
                LET own == Mode(TypeCells(args.df, "bedrooms", args.df[i].property_type))
                IN  ret[i] = IF NotNull(own) THEN own
                             ELSE Mode(Column(args.df, "bedrooms"))

\* The part of C6 the code satisfies: a null cell whose property type has a
\* non-null value is filled with that type's mode, and every other cell is
\* left as it was.
ModeImputationWithinType ==
    (fn = "impute_by_property_type_mode" /\ pc = "done") =>
        \A i \in 1..Len(args.df) :
            LET own == Mode(TypeCells(args.df, "bedrooms", args.df[i].property_type))
            IN  ret[i] = IF IsNull(args.df[i].bedrooms) /\ NotNull(own) THEN own
                         ELSE args.df[i].bedrooms

(***************************************************************************)
(* extract_address_from_url, clean_street_address (geo.py 211-373)         *)
(***************************************************************************)

\* str.upper() on one character and on a string.
UpperChar(c) ==
    IF \E i \in 1..26 : LowerLetters[i] = c
    THEN UpperLetters[CHOOSE i \in 1..26 : LowerLetters[i] = c]
    ELSE c

Upper(s) == [i \in 1..Len(s) |-> UpperChar(s[i])]

IsLetter(c) == \E i \in 1..26 : LowerLetters[i] = c \/ UpperLetters[i] = c

\* str.title(): a letter is uppercased when no letter precedes it, and
\* lowercased otherwise.
Title(s) ==
    [i \in 1..Len(s) |->
        IF i = 1 \/ ~IsLetter(s[i - 1]) THEN UpperChar(s[i]) ELSE LowerChar(s[i])]

\* str.isdigit()
IsDigitStr(s) == Len(s) > 0 /\ \A i \in 1..Len(s) : s[i] \in Digits

\* sep.join(words)
RECURSIVE Join(_, _)
Join(words, sep) ==
    IF words = <<>> THEN <<>>
    ELSE IF Len(words) = 1 THEN words[1]
    ELSE words[1] \o sep \o Join(Tail(words), sep)

\* str.lstrip(chars)
RECURSIVE LStrip(_, _)
LStrip(s, cs) ==
    IF s # <<>> /\ Head(s) \in cs THEN LStrip(Tail(s), cs) ELSE s

\* str.split(): split on runs of blanks, no empty words.
SplitWords(s) == SelectSeq(Split(s, <<" ">>), LAMBDA w : w # <<>>)

prefixes_to_remove ==
    { <<"u", "n", "i", "t">>, <<"a", "p", "t">>,
      <<"a", "p", "a", "r", "t", "m", "e", "n", "t">>,
      <<"s", "u", "i", "t", "e">>, <<"l", "e", "v", "e", "l">>,
      <<"f", "l", "o", "o", "r">>, <<"s", "h", "o", "p">>,
      <<"o", "f", "f", "i", "c", "e">>, <<"r", "e", "a", "r">>,
      <<"f", "r", "o", "n", "t">>, <<"g", "r", "o", "u", "n", "d">>,
      <<"b", "a", "s", "e", "m", "e", "n", "t">>,
      <<"m", "e", "z", "z", "a", "n", "i", "n", "e">>,
      <<"p", "e", "n", "t", "h", "o", "u", "s", "e">>,
      <<"v", "i", "l", "l", "a">>,
      <<"t", "o", "w", "n", "h", "o", "u", "s", "e">>,
      <<"h", "o", "u", "s", "e">>, <<"h", "o", "m", "e">>,
      <<"p", "r", "o", "p", "e", "r", "t", "y">>,
      <<"b", "u", "i", "l", "d", "i", "n", "g">> }

\* The while loop over the leading prefix words: the first index kept.
RECURSIVE SkipPrefixes(_, _)
SkipPrefixes(words, i) ==
    IF i <= Len(words) /\ Lower(words[i]) \in prefixes_to_remove
    THEN IF i + 1 <= Len(words) /\ IsDigitStr(words[i + 1])
         THEN SkipPrefixes(words, i + 2)
         ELSE SkipPrefixes(words, i + 1)
    ELSE i

TitleWords(words) == Join([i \in 1..Len(words) |-> Title(words[i])], <<" ">>)

\* Cleaning that keeps the first word containing a digit as the street
\* number.
clean_street_address_FirstNumber(street_address) ==
    LET words == SplitWords(street_address) IN
    IF street_address = <<>> \/ words = <<>> THEN street_address
    ELSE LET cleaned_words == SubSeq(words, SkipPrefixes(words, 1), Len(words))
             numbered == {i \in 1..Len(cleaned_words) :
                             \E q \in 1..Len(cleaned_words[i]) :
                                 cleaned_words[i][q] \in Digits}
         IN  IF cleaned_words = <<>> THEN street_address
             ELSE IF numbered = {} THEN TitleWords(cleaned_words)
             ELSE LET n == CHOOSE i \in numbered : \A j \in numbered : i <= j
                      street_name_words == SubSeq(cleaned_words, n + 1, Len(cleaned_words))
                  IN  IF street_name_words = <<>> THEN cleaned_words[n]
                      ELSE cleaned_words[n] \o <<" ">> \o TitleWords(street_name_words)

clean_street_address(street_address) ==
    LET words == SplitWords(street_address) IN
    IF street_address = <<>> \/ words = <<>> THEN street_address
    ELSE LET cleaned_words == SubSeq(words, SkipPrefixes(words, 1), Len(words))
             numbered == {i \in 1..Len(cleaned_words) :
                             \E q \in 1..Len(cleaned_words[i]) :
                                 cleaned_words[i][q] \in Digits}
         IN  IF cleaned_words = <<>> THEN street_address
             ELSE IF numbered = {} THEN TitleWords(cleaned_words)
             ELSE LET n == CHOOSE i \in numbered : \A j \in numbered : i >= j
                      street_name_words == SubSeq(cleaned_words, n + 1, Len(cleaned_words))
                  IN  IF street_name_words = <<>> THEN cleaned_words[n]
                      ELSE cleaned_words[n] \o <<" ">> \o TitleWords(street_name_words)

\* extract_address_from_url on one cell: Some(full address) or None.
extract_address_from_url(url) ==
    IF IsNull(url) THEN None
    ELSE LET parts == Split(LStrip(Val(url), {"/"}), <<"-">>)
             n == Len(parts)
         IN  IF n < 4 THEN None
             ELSE LET postcode == parts[n - 1]
                      state == parts[n - 2]
                      suburb == parts[n - 3]
                      all_street == SubSeq(parts, 1, n - 4)
                      street_parts ==
                          IF all_street # <<>> /\ IsDigitStr(all_street[1])
                          THEN Tail(all_street) ELSE all_street
                      cleaned_street == clean_street_address(Join(street_parts, <<" ">>))
                  IN  Some(cleaned_street \o <<",", " ">> \o Title(suburb)
                           \o <<",", " ">> \o Upper(state) \o <<" ">> \o postcode)

(***************************************************************************)
(* Deduplication (preprocess.py 1515-1517, 1558-1560)                      *)
(***************************************************************************)

\* Row a sorts before row b under by=["year", "quarter"], ascending=False.
Later(a, b) ==
    a.year > b.year \/ (a.year = b.year /\ a.quarter > b.quarter)

\* The same sort with ascending=True.
RECURSIVE sort_values_Ascending(_)
sort_values_Ascending(df) ==
    IF df = <<>> THEN <<>>
    ELSE LET front == sort_values_Ascending(SubSeq(df, 1, Len(df) - 1))
             r == df[Len(df)]
             k == Cardinality({i \in 1..Len(front) : ~Later(front[i], r)})
         IN  SubSeq(front, 1, k) \o <<r>> \o SubSeq(front, k + 1, Len(front))

\* df.sort_values(by=["year", "quarter"], ascending=False): a stable sort,
\* rows with equal (year, quarter) keep their order.
RECURSIVE sort_values(_)
sort_values(df) ==
    IF df = <<>> THEN <<>>
    ELSE LET front == sort_values(SubSeq(df, 1, Len(df) - 1))
             r == df[Len(df)]
             k == Cardinality({i \in 1..Len(front) : ~Later(r, front[i])})
         IN  SubSeq(front, 1, k) \o <<r>> \o SubSeq(front, k + 1, Len(front))

\* drop_duplicates keeping the last row of each property_id.
drop_duplicates_KeepLast(df) ==
    Pick(df, {i \in 1..Len(df) :
                 \A j \in (i + 1)..Len(df) : df[j].property_id # df[i].property_id})

\* df.drop_duplicates(subset=["property_id"], keep="first")
drop_duplicates(df) ==
    Pick(df, {i \in 1..Len(df) :
                 \A j \in 1..(i - 1) : df[j].property_id # df[i].property_id})

(***************************************************************************)
(* preprocess_wayback_listings (preprocess.py 1459-1522)                   *)
(***************************************************************************)
MinSuburbCount == 10

\* suburb_counts = df["suburb"].value_counts() (nulls are not counted)
suburb_counts(df, s) ==
    Cardinality({i \in 1..Len(df) : df[i].suburb = s})

\* df[df["suburb"].isin(valid_suburbs)], valid_suburbs those counted > 10
filter_small_suburbs(df) ==
    Filter(df, LAMBDA r :
        NotNull(r.suburb) /\ suburb_counts(df, r.suburb) > MinSuburbCount)

\* df[col] = impute_by_property_type_mode(df, col)
with_imputed(df, col) ==
    LET imputed == impute_by_property_type_mode(df, col, "property_type") IN
    [i \in 1..Len(df) |-> [df[i] EXCEPT ![col] = imputed[i]]]

\* The columns left after the two drops, with the address column added.
kept_columns(r) ==
    [property_id |-> r.property_id,
     rental_price |-> r.rental_price,
     suburb |-> r.suburb,
     property_type |-> r.property_type,
     bedrooms |-> r.bedrooms,
     bathrooms |-> r.bathrooms,
     car_spaces |-> r.car_spaces,
     year |-> r.year,
     quarter |-> r.quarter,
     address |-> extract_address_from_url(r.url)]

\* df.dropna(): a row with any null cell is dropped.
dropna(df) ==
    Filter(df, LAMBDA r :
        /\ NotNull(r.rental_price) /\ NotNull(r.suburb) /\ NotNull(r.bedrooms)
        /\ NotNull(r.bathrooms) /\ NotNull(r.car_spaces) /\ NotNull(r.address))

\* The tables of preprocess_wayback_listings, step by step, with the inverted
\* suburb mapping inv; out is what the function returns.
preprocess_wayback_listings(df_list, inv) ==
    LET stacked == Concat(df_list)
        mapped == [i \in 1..Len(stacked) |->
                      [stacked[i] EXCEPT !.suburb = map_suburb_cell(inv, @)]]
        filtered == filter_small_suburbs(mapped)
        imputed == with_imputed(with_imputed(with_imputed(filtered,
                       "bedrooms"), "bathrooms"), "car_spaces")
        priced == [i \in 1..Len(imputed) |->
                      [imputed[i] EXCEPT !.rental_price =
                          extract_rental_price(imputed[i].rental_price)]]
        known == Filter(priced, LAMBDA r : NotNull(r.rental_price))
        addressed == [i \in 1..Len(known) |-> kept_columns(known[i])]
        sorted == sort_values(addressed)
        deduped == drop_duplicates(sorted)
    IN  [filtered |-> filtered,
         imputed |-> imputed,
         before_dedup |-> addressed,
         deduped |-> deduped,
         out |-> dropna(deduped)]

(***************************************************************************)
(* combine_and_sample_listings (preprocess.py 1524-1593)                   *)
(***************************************************************************)

\* str(x) of a number, as a Python string.
RECURSIVE IntToStr(_)
IntToStr(n) ==
    IF n < 10 THEN <<DigitSeq[n + 1]>>
    ELSE IntToStr(n \div 10) \o <<DigitSeq[(n % 10) + 1]>>

\* astype(str) of a nullable integer cell (Int64 prints a null as <NA>).
CellToStr(c) == IF IsNull(c) THEN <<"<", "N", "A", ">">> ELSE IntToStr(Val(c))

\* The strata column: property_type + "_" + suburb + "_" + bedrooms.
strata(r) ==
    r.property_type \o <<"_">> \o Val(r.suburb) \o <<"_">> \o CellToStr(r.bedrooms)

\* round(frac * n) as Python rounds: to the nearest integer, a half to the
\* even neighbour.  frac is the fraction frac.n / frac.d.
RoundFrac(frac, n) ==
    LET p == frac.n * n
        q == p \div frac.d
        twice == 2 * (p % frac.d)
    IN  IF twice < frac.d THEN q
        ELSE IF twice > frac.d THEN q + 1
        ELSE IF q % 2 = 0 THEN q ELSE q + 1

\* The positions of df in the stratum of row i.
StratumOf(df, i) == {j \in 1..Len(df) : strata(df[j]) = strata(df[i])}

\* The stratified sample without the test len(x) > 1: every stratum is
\* sampled.
SampleChoices_EveryStratum(df, frac) ==
    {K \in SUBSET (1..Len(df)) :
        \A i \in 1..Len(df) :
            LET S == StratumOf(df, i) IN
            Cardinality(K \cap S) = RoundFrac(frac, Cardinality(S))}

\* The sets of positions a stratified sample can keep: a stratum of one row
\* whole, of a larger stratum any round(frac * N) of its N rows (which ones
\* is decided by the seeded generator).
SampleChoices(df, frac) ==
    {K \in SUBSET (1..Len(df)) :
        \A i \in 1..Len(df) :
            LET S == StratumOf(df, i) IN
            IF Cardinality(S) > 1
            THEN Cardinality(K \cap S) = RoundFrac(frac, Cardinality(S))
            ELSE S \subseteq K}

\* The tables of combine_and_sample_listings up to the sampling.
combine_listings(live_df, wayback_df) ==
    LET combined == live_df \o wayback_df
        sorted == sort_values(combined)
    IN  [before_dedup |-> combined, deduped |-> drop_duplicates(sorted)]

(***************************************************************************)
(* Specification of the listing reconciliation: one call of                *)
(* preprocess_wayback_listings or of combine_and_sample_listings           *)
(***************************************************************************)
MaxFill == 9

MaxCombineRows == 3

\* (year, quarter) pairs of the scraped snapshots.
Vintages == { <<2023, 1>>, <<2023, 4>>, <<2024, 3>> }

SouthYarra == <<"s", "o", "u", "t", "h", " ", "y", "a", "r", "r", "a">>

SthYarra == <<"s", "t", "h", " ", "y", "a", "r", "r", "a">>

House == <<"H", "o", "u", "s", "e">>

Unit == <<"U", "n", "i", "t">>

\* The suburb mapping file of the scenario: {"south yarra": ["sth yarra"]}.
ScenarioMapping == <<Entry(SouthYarra, <<SthYarra>>, TRUE)>>

ScenarioPrices ==
    { <<"$", "4", "5", "0", " ", "p", "w">>,
      <<"$", "1", "8", "0", "0", " ", "p", "c", "m">>,
      <<"$", "2", "0", "0", "0", " ", "p", "m">> }

ScenarioSuburbs ==
    { <<"S", "T", "H", " ", "Y", "a", "r", "r", "a">>,
      <<"S", "o", "u", "t", "h", " ", "Y", "a", "r", "r", "a">> }

\* The listing URL of property pid.
ListingUrl(pid) ==
    <<"/", "1", "2", "-", "c", "h", "a", "p", "e", "l", "-", "s", "t", "-">>
        \o <<"s", "o", "u", "t", "h", "-", "y", "a", "r", "r", "a", "-", "v", "i", "c", "-", "3", "1", "4", "1", "-">> \o IntToStr(pid)

\* Raw wayback rows of the observed properties.  The columns the function
\* drops unread (land_area, property_features, postcode, scraped_date,
\* wayback_url, wayback_time) are left out.
ObservedRows(pids) ==
    {[property_id |-> pid, rental_price |-> p, suburb |-> Some(s),
      property_type |-> House, bedrooms |-> b, bathrooms |-> Some(1),
      car_spaces |-> Some(1), year |-> v[1], quarter |-> v[2],
      url |-> Some(ListingUrl(pid))] :
        pid \in pids, p \in ScenarioPrices, s \in ScenarioSuburbs,
        b \in {None, Some(3)}, v \in Vintages}

\* n further listings of the same suburb, each of its own property.
FillRows(n) ==
    [i \in 1..n |->
        [property_id |-> 100 + i, rental_price |-> <<"$", "5", "0", "0", " ", "p", "w">>,
         suburb |-> Some(SouthYarra), property_type |-> Unit,
         bedrooms |-> Some(2), bathrooms |-> Some(1), car_spaces |-> Some(1),
         year |-> 2024, quarter |-> 2, url |-> Some(ListingUrl(100 + i))]]

\* Numbers of further listings: none, or enough to bring the suburb to the
\* threshold of the small-suburb filter and past it.
FillCounts == {0} \cup ((MinSuburbCount - 2)..MaxFill)

WaybackInputs ==
    {[df_list |-> << <<r1, r2>>, FillRows(n) >>] :
        r1 \in ObservedRows({1}), r2 \in ObservedRows({1, 2}), n \in FillCounts}

\* Preprocessed rows handed to combine_and_sample_listings.  The coordinate
\* columns, which the function only carries along, are left out.
CombineRows ==
    {[property_id |-> pid, rental_price |-> p, suburb |-> Some(SouthYarra),
      property_type |-> House, bedrooms |-> Some(2),
      bathrooms |-> Some(1), car_spaces |-> Some(1),
      year |-> v[1], quarter |-> v[2]] :
        pid \in {1, 2}, p \in {450, 500}, v \in Vintages}

SampleRatios == {[n |-> 1, d |-> 2]}

InitListings ==
    /\ \/ /\ fn = "preprocess_wayback_listings"
          /\ args \in WaybackInputs
          /\ mapping_file = ScenarioMapping
       \/ /\ fn = "combine_and_sample_listings"
          /\ \E t \in SeqsUpTo(CombineRows, MaxCombineRows) :
                \E k \in 0..Len(t), r \in SampleRatios :
                    args = [live_df |-> SubSeq(t, 1, k),
                            wayback_df |-> SubSeq(t, k + 1, Len(t)),
                            sample_ratio |-> r]
          /\ mapping_file = <<>>
    /\ ret = None
    /\ pc = "call"
    /\ suburb_mapping = None
    /\ inverted_suburb_mapping = None
    /\ calls = <<>>
    /\ file_reads = 0
    /\ files = <<>>
    /\ locals = <<>>

\* preprocess_wayback_listings on a fresh instance: map_suburb loads the
\* mapping file on its first use.
PreprocessWaybackListings ==
    /\ pc = "call"
    /\ fn = "preprocess_wayback_listings"
    /\ LoadSuburbMapping
    /\ ret' = preprocess_wayback_listings(args.df_list,
                                          Val(inverted_suburb_mapping'))
    /\ pc' = "done"
    /\ UNCHANGED <<fn, args, mapping_file, calls, files, locals>>

\* combine_and_sample_listings; the rows of the sample are returned in the
\* order the seeded shuffle and the grouping leave them in, so the sample is
\* kept as a set of rows.
CombineAndSampleListings ==
    /\ pc = "call"
    /\ fn = "combine_and_sample_listings"
    /\ LET t == combine_listings(args.live_df, args.wayback_df) IN
       \E K \in SampleChoices(t.deduped, args.sample_ratio) :
           ret' = [before_dedup |-> t.before_dedup,
                   deduped |-> t.deduped,
                   out |-> {t.deduped[i] : i \in K}]
    /\ pc' = "done"
    /\ UNCHANGED <<fn, args, instance, world>>

NextListings == PreprocessWaybackListings \/ CombineAndSampleListings

SpecListings == InitListings /\ [][NextListings]_vars

\* The rows of df with property id pid.
RowsOf(df, pid) == {i \in 1..Len(df) : df[i].property_id = pid}

\* after keeps, for every property id of before, exactly one row, which is a
\* row of before and has no row of that property after it in time.
DedupContract(before, after) ==
    \A pid \in {before[i].property_id : i \in 1..Len(before)} :
        /\ Cardinality(RowsOf(after, pid)) = 1
        /\ \A j \in RowsOf(after, pid) :
              /\ \E i \in RowsOf(before, pid) : before[i] = after[j]
              /\ \A i \in RowsOf(before, pid) : ~Later(before[i], after[j])

\* C2: in both functions the deduplication step keeps, for every property_id
\* entering it, exactly one row; the row is one of the input rows unchanged
\* and its (year, quarter) is lexicographically maximal for that property.
C2_Deduplication ==
    pc = "done" => DedupContract(ret.before_dedup, ret.deduped)

\* A property listed in the live table and again, later in the same year
\* and at another price, in the wayback table: the later row is the one kept.
C2_Witness ==
    /\ pc = "done"
    /\ fn = "combine_and_sample_listings"
    /\ \E i \in 1..Len(args.live_df), j \in 1..Len(args.wayback_df) :
          LET a == args.live_df[i]
              b == args.wayback_df[j]
          IN  /\ a.property_id = b.property_id
              /\ a.year = b.year
              /\ a.quarter < b.quarter
              /\ a.rental_price # b.rental_price
              /\ \E k \in 1..Len(ret.deduped) : ret.deduped[k] = b
              /\ \A k \in 1..Len(ret.deduped) : ret.deduped[k] # a

\* The weekly rent each price string of the scenario stands for.
ScenarioWeekly(p) ==
    CASE p = <<"$", "4", "5", "0", " ", "p", "w">> -> Num(450, 1)
      [] p = <<"$", "1", "8", "0", "0", " ", "p", "c", "m">> -> Num(450, 1)
      [] p = <<"$", "2", "0", "0", "0", " ", "p", "m">> -> Num(500, 1)

\* The two observations of preprocess_wayback_listings' first table are of
\* one property, in two vintages, under two spellings of the suburb.
TwoVintages ==
    LET r1 == args.df_list[1][1]
        r2 == args.df_list[1][2]
    IN  /\ r1.property_id = r2.property_id
        /\ r1.suburb # r2.suburb
        /\ Later(r1, r2) \/ Later(r2, r1)

\* The later of the two observations.
LatestObservation ==
    LET r1 == args.df_list[1][1]
        r2 == args.df_list[1][2]
    IN  IF Later(r2, r1) THEN r2 ELSE r1

\* out holds exactly one row of the property of observation r, with the
\* weekly rent w, the canonical suburb, and the year and quarter of r.
ReconciledAs(out, r, w) ==
    /\ Cardinality(RowsOf(out, r.property_id)) = 1
    /\ \A k \in RowsOf(out, r.property_id) :
          /\ NotNull(out[k].rental_price)
          /\ NumEq(Val(out[k].rental_price), w)
          /\ out[k].suburb = Some(SouthYarra)
          /\ out[k].year = r.year
          /\ out[k].quarter = r.quarter

SouthYarraCount ==
    LET stacked == Concat(args.df_list) IN
    Cardinality({i \in 1..Len(stacked) :
        /\ NotNull(stacked[i].suburb)
        /\ Lower(Val(stacked[i].suburb)) \in {SouthYarra, SthYarra}})

\* Observation r has a value in every column once the bedrooms of its
\* property type are imputed: it has bedrooms itself, or some row of the
\* stacked input of its property type has.
CompleteAfterImputation(r) ==
    LET stacked == Concat(args.df_list) IN
    \/ NotNull(r.bedrooms)
    \/ \E i \in 1..Len(stacked) :
          /\ stacked[i].property_type = r.property_type
          /\ NotNull(stacked[i].bedrooms)

\* The observations of the first table, of property pid, whose price string
\* extract_rental_price turns into a weekly rent.
Priced(pid) ==
    {i \in RowsOf(args.df_list[1], pid) :
        NotNull(extract_rental_price(args.df_list[1][i].rental_price))}

\* The latest of the priced observations of pid, the first of them in table
\* order when two are of the same vintage.
LatestPriced(pid) ==
    LET obs == args.df_list[1]
        i == CHOOSE k \in Priced(pid) :
                 \A m \in Priced(pid) :
                     /\ ~Later(obs[m], obs[k])
                     /\ (m < k => Later(obs[k], obs[m]))
    IN  obs[i]

any_null(results, column_names, i) ==
    \E k \in 1..Len(column_names) : IsNull(results[column_names[k]][i])

\* results[col].notna() at row i, for all of the columns.
all_notna(results, column_names, i) ==
    \A k \in 1..Len(column_names) : NotNull(results[column_names[k]][i])

\* df[any_null_mask].index: the rows with a null in any of the columns, in
\* index order.
null_indices(df, column_names) ==
    LET results == [c \in {column_names[k] : k \in 1..Len(column_names)} |->
                       Column(df, c)]
    IN  Pick([i \in 1..Len(df) |-> i],
             {i \in 1..Len(df) : any_null(results, column_names, i)})

\* The candidate rows of the first search with the suburb left out of it.
same_suburb_mask_AnySuburb(df, results, column_names, idx) ==
    {j \in 1..Len(df) : j # idx /\ all_notna(results, column_names, j)}

\* The candidate rows of the first search: the other rows of the suburb of
\* row idx that by now hold a value in every column.
same_suburb_mask(df, results, column_names, idx) ==
    {j \in 1..Len(df) :
        /\ df[j].suburb = df[idx].suburb
        /\ j # idx
        /\ all_notna(results, column_names, j)}

\* The candidate rows of the global search.
global_mask(df, results, column_names, idx) ==
    {j \in 1..Len(df) : j # idx /\ all_notna(results, column_names, j)}

\* The square of Point.distance, which orders the candidates as the
\* distance does.
distance2(p, q) ==
    (p[1] - q[1]) * (p[1] - q[1]) + (p[2] - q[2]) * (p[2] - q[2])

\* distances.idxmin(): the candidate nearest to row idx, the first in index
\* order among equally near ones.
idxmin(df, candidates, idx) ==
    LET dist(j) == distance2(df[idx].coordinates, df[j].coordinates) IN
    CHOOSE j \in candidates :
        \A k \in candidates :
            dist(j) < dist(k) \/ (dist(j) = dist(k) /\ j <= k)

\* The columns of results after each null cell of row idx is filled from the
\* first row that holds a value in that column, whatever nearest_idx is.
impute_from_PerColumn(results, idx, nearest_idx) ==
    [c \in DOMAIN results |->
        LET have == {j \in 1..Len(results[c]) : NotNull(results[c][j])} IN
        IF IsNull(results[c][idx]) /\ have # {}
        THEN [results[c] EXCEPT ![idx] =
                 results[c][CHOOSE j \in have : \A k \in have : j <= k]]
        ELSE results[c]]

\* The columns of results after the null cells of row idx are filled from
\* row nearest_idx.
impute_from(results, idx, nearest_idx) ==
    [c \in DOMAIN results |->
        IF IsNull(results[c][idx])
        THEN [results[c] EXCEPT ![idx] = results[c][nearest_idx]]
        ELSE results[c]]

\* One pass of the loop body for row idx.  st holds the results so far and,
\* per row, the row it was filled from and the search that found it.
impute_row(df, column_names, idx, st) ==
    LET same == same_suburb_mask(df, st.results, column_names, idx)
        glob == global_mask(df, st.results, column_names, idx)
    IN  IF ~any_null(st.results, column_names, idx) THEN st
        ELSE IF same # {}
        THEN LET nearest_idx == idxmin(df, same, idx) IN
             [results |-> impute_from(st.results, idx, nearest_idx),
              nearest |-> [st.nearest EXCEPT ![idx] = Some(nearest_idx)],
              search |-> [st.search EXCEPT ![idx] = "same_suburb"]]
        ELSE IF glob # {}
        THEN LET nearest_idx == idxmin(df, glob, idx) IN
             [results |-> impute_from(st.results, idx, nearest_idx),
              nearest |-> [st.nearest EXCEPT ![idx] = Some(nearest_idx)],
              search |-> [st.search EXCEPT ![idx] = "global"]]
        ELSE [st EXCEPT !.search[idx] = "not_imputed"]

\* The loop over the rows todo, in the order of todo.
RECURSIVE impute_loop(_, _, _, _)
impute_loop(df, column_names, todo, st) ==
    IF todo = <<>> THEN st
    ELSE impute_loop(df, column_names, Tail(todo),
                     impute_row(df, column_names, Head(todo), st))

\* The state of the function before its loop.
impute_start(df, column_names) ==
    [results |-> [c \in {column_names[k] : k \in 1..Len(column_names)} |->
                     Column(df, c)],
     nearest |-> [i \in 1..Len(df) |-> None],
     search |-> [i \in 1..Len(df) |-> "none"]]

\* impute_by_nearest_point called with a list of column names: the loop runs
\* over null_indices; results is what the function returns as a DataFrame.
impute_by_nearest_point(df, column_names) ==
    impute_loop(df, column_names, null_indices(df, column_names),
                impute_start(df, column_names))

(***************************************************************************)
(* Specification of one impute_by_nearest_point call                       *)
(***************************************************************************)
MaxImputeRows == 3

ImputeSuburbs == {"a", "b"}

ImputePoints == { <<0, 0>>, <<0, 1>> }

ImputeColumnLists ==
    { <<"driving_5min">>, <<"driving_5min", "walking_5min">> }

\* The value row i holds in a column when it holds one: no two cells of a
\* table hold the same value, so a value names the cell it was observed in.
Observed(i, col) == IF col = "driving_5min" THEN 10 * i + 1 ELSE 10 * i + 2

\* Which rows a table has: suburb, point, and which cells are null.
ImputeShapes ==
    [suburb : ImputeSuburbs, coordinates : ImputePoints,
     driving_5min : BOOLEAN, walking_5min : BOOLEAN]

ImputeTable(shape) ==
    [i \in 1..Len(shape) |->
        [suburb |-> shape[i].suburb,
         coordinates |-> shape[i].coordinates,
         driving_5min |-> IF shape[i].driving_5min
                          THEN Some(Observed(i, "driving_5min")) ELSE None,
         walking_5min |-> IF shape[i].walking_5min
                          THEN Some(Observed(i, "walking_5min")) ELSE None]]

InitNearest ==
    /\ fn = "impute_by_nearest_point"
    /\ \E shape \in SeqsUpTo(ImputeShapes, MaxImputeRows) :
       \E cols \in ImputeColumnLists :
           args = [df |-> ImputeTable(shape), column_names |-> cols]
    /\ ret = None
    /\ pc = "call"
    /\ MappingIdle

ImputeByNearestPoint ==
    /\ pc = "call"
    /\ fn = "impute_by_nearest_point"
    /\ ret' = impute_by_nearest_point(args.df, args.column_names)
    /\ pc' = "done"
    /\ UNCHANGED <<fn, args, instance, world>>

NextNearest == ImputeByNearestPoint

SpecNearest == InitNearest /\ [][NextNearest]_vars

\* The columns named in the call, as a set.
Targets == {args.column_names[k] : k \in 1..Len(args.column_names)}

\* Row j of the input holds a value in every target column.
CompleteInput(j) == \A c \in Targets : NotNull(args.df[j][c])

\* C4: every value written into a null cell is the value another row held
\* in that column in the input, and a row with a null that has another row
\* of its suburb complete in the input is filled by the same-suburb search,
\* from a row of its suburb.
C4_NearestProvenance ==
    pc = "done" =>
        \A i \in 1..Len(args.df) :
            /\ \A c \in Targets :
                  (IsNull(args.df[i][c]) /\ NotNull(ret.results[c][i])) =>
                      \E j \in 1..Len(args.df) :
                          j # i /\ args.df[j][c] = ret.results[c][i]
            /\ \A c \in Targets :
                  NotNull(args.df[i][c]) => ret.results[c][i] = args.df[i][c]
            /\ ((\E c \in Targets : IsNull(args.df[i][c]))
                /\ (\E j \in 1..Len(args.df) :
                       /\ j # i
                       /\ args.df[j].suburb = args.df[i].suburb
                       /\ CompleteInput(j)))
               => /\ ret.search[i] = "same_suburb"
                  /\ args.df[Val(ret.nearest[i])].suburb = args.df[i].suburb

\* A row with a null whose suburb has a complete row farther away than a
\* complete row of another suburb: it is filled from its own suburb; and a
\* row of a suburb with no complete row, filled by the global search.
C4_Witness ==
    /\ pc = "done"
    /\ \E i, j, k \in 1..Len(args.df) :
          /\ \E c \in Targets : IsNull(args.df[i][c])
          /\ CompleteInput(j) /\ CompleteInput(k)
          /\ args.df[j].suburb = args.df[i].suburb
          /\ args.df[k].suburb # args.df[i].suburb
          /\ distance2(args.df[i].coordinates, args.df[k].coordinates)
                < distance2(args.df[i].coordinates, args.df[j].coordinates)
          /\ ret.nearest[i] = Some(j)
          /\ \A c \in Targets :
                IsNull(args.df[i][c]) => ret.results[c][i] = args.df[j][c]

\* Every order in which the rows with a null can be processed.
ProcessingOrders ==
    LET todo == null_indices(args.df, args.column_names)
        n == Len(todo)
    IN  {[k \in 1..n |-> todo[p[k]]] :
            p \in {q \in [1..n -> 1..n] : \A a, b \in 1..n : a # b => q[a] # q[b]}}

\* Row i was filled from a row that itself held a null in the input.
FilledFromImputed(i) ==
    /\ NotNull(ret.nearest[i])
    /\ ~CompleteInput(Val(ret.nearest[i]))

\* C5: no row is filled from a row that was itself imputed earlier in the
\* call, and processing the rows with a null in any order gives the result
\* the call returns.
C5_OrderIndependence ==
    pc = "done" =>
        /\ \A i \in 1..Len(args.df) : ~FilledFromImputed(i)
        /\ \A order \in ProcessingOrders :
              impute_loop(args.df, args.column_names, order,
                          impute_start(args.df, args.column_names)).results
                  = ret.results

\* The order of the rows with a null changes the returned table.
OrderChangesResult ==
    /\ pc = "done"
    /\ \E order \in ProcessingOrders :
          impute_loop(args.df, args.column_names, order,
                      impute_start(args.df, args.column_names)).results
              # ret.results

(***************************************************************************)
(* impute_missing_school_features (preprocess.py 2350-2449)                *)
(*                                                                         *)
(* A row of listings_gdf is a record over the six tokens; the entry of a   *)
(* token holds the columns f"{field}_{token}" and f"n_schools_{token}".    *)
(***************************************************************************)
fields == <<"best_school_name", "best_school_coord", "best_score", "best_dist_km">>

tokens ==
    <<"walking_5min", "walking_10min", "walking_15min",
      "driving_5min", "driving_10min", "driving_15min">>

\* all_fields_present(df, token): per row, whether the four columns of the
\* token are all non-null.
all_fields_present(df, token) ==
    [i \in 1..Len(df) |-> \A k \in 1..Len(fields) : NotNull(df[i][token][fields[k]])]

\* listings_gdf[target_cols].isna().all(axis=1)
all_fields_missing(df, token) ==
    [i \in 1..Len(df) |-> \A k \in 1..Len(fields) : IsNull(df[i][token][fields[k]])]

fallback(target) ==
    CASE target = "walking_5min" ->
            <<"walking_10min", "walking_15min",
              "driving_5min", "driving_10min", "driving_15min">>
      [] target = "walking_10min" ->
            <<"walking_15min", "driving_5min", "driving_10min", "driving_15min">>
      [] target = "walking_15min" ->
            <<"driving_5min", "driving_10min", "driving_15min">>
      [] target = "driving_5min" -> <<"driving_10min", "driving_15min">>
      [] target = "driving_10min" -> <<"driving_5min", "driving_15min">>
      [] target = "driving_15min" -> <<"driving_10min", "driving_5min">>

\* The targets the loop runs over.
targets ==
    <<"walking_5min", "walking_10min",
      "driving_5min", "driving_10min", "driving_15min">>

\* The table after the columns of candidate are copied into those of target
\* in the rows of the set rows, the school count only where the target's
\* count is null or 0.
copy_candidate(gdf, target, candidate, rows) ==
    [i \in 1..Len(gdf) |->
        IF i \notin rows THEN gdf[i]
        ELSE LET src == gdf[i][candidate]
                 tgt == gdf[i][target]
                 need == IsNull(tgt.n_schools) \/ tgt.n_schools = Some(0)
             IN  [gdf[i] EXCEPT ![target] =
                     [best_school_name |-> src.best_school_name,
                      best_school_coord |-> src.best_school_coord,
                      best_score |-> src.best_score,
                      best_dist_km |-> src.best_dist_km,
                      n_schools |-> IF need THEN src.n_schools
                                    ELSE tgt.n_schools]]]

\* The loop over the candidates of one target; st holds the table and the
\* set of rows already filled.
RECURSIVE candidate_loop(_, _, _, _, _)
candidate_loop(st, avail, missing, target, candidates) ==
    IF candidates = <<>> THEN st
    ELSE LET candidate == Head(candidates)
             rows == {i \in 1..Len(st.gdf) :
                         missing[i] /\ avail[candidate][i] /\ i \notin st.filled}
         IN  IF rows = {}
             THEN candidate_loop(st, avail, missing, target, Tail(candidates))
             ELSE candidate_loop(
                      [gdf |-> copy_candidate(st.gdf, target, candidate, rows),
                       filled |-> st.filled \cup rows],
                      avail, missing, target, Tail(candidates))

\* The loop over the targets ts.
RECURSIVE target_loop(_, _, _)
target_loop(gdf, avail, ts) ==
    IF ts = <<>> THEN gdf
    ELSE LET target == Head(ts)
             missing == all_fields_missing(gdf, target)
             st == candidate_loop([gdf |-> gdf, filled |-> {}], avail, missing,
                                  target, fallback(target))
         IN  target_loop(st.gdf, avail, Tail(ts))

\* avail is taken once, from the table as passed in.
impute_missing_school_features(listings_gdf) ==
    LET avail == [tok \in {tokens[k] : k \in 1..Len(tokens)} |->
                     all_fields_present(listings_gdf, tok)]
    IN  target_loop(listings_gdf, avail, targets)

(***************************************************************************)
(* Specification of one impute_missing_school_features call                *)
(***************************************************************************)
MaxSchoolRows == 1

TokenSet == {tokens[k] : k \in 1..Len(tokens)}

\* What a row holds for a token: all four fields ("complete"), none of
\* them ("missing"), or name and coordinate without score and distance
\* ("partial").  At most one token of a row is partial.
SchoolShapes ==
    {s \in [TokenSet -> {"complete", "missing", "partial"}] :
        Cardinality({t \in TokenSet : s[t] = "partial"}) <= 1}

\* The entry of token tok in row i, of the given kind; a value names the
\* row, the token and the field it was observed in, and the school count is
\* 0 where no best school is recorded.
SchoolEntry(i, tok, kind) ==
    [best_school_name |->
        IF kind = "missing" THEN None ELSE Some(<<i, tok, "best_school_name">>),
     best_school_coord |->
        IF kind = "missing" THEN None ELSE Some(<<i, tok, "best_school_coord">>),
     best_score |->
        IF kind = "complete" THEN Some(<<i, tok, "best_score">>) ELSE None,
     best_dist_km |->
        IF kind = "complete" THEN Some(<<i, tok, "best_dist_km">>) ELSE None,
     n_schools |->
        IF kind = "missing" THEN Some(0)
        ELSE Some(10 * i + (CHOOSE k \in 1..Len(tokens) : tokens[k] = tok))]

SchoolTable(shapes) ==
    [i \in 1..Len(shapes) |-> [tok \in TokenSet |-> SchoolEntry(i, tok, shapes[i][tok])]]

InitSchool ==
    /\ fn = "impute_missing_school_features"
    /\ \E shapes \in SeqsUpTo(SchoolShapes, MaxSchoolRows) :
           args = [listings_gdf |-> SchoolTable(shapes)]
    /\ ret = None
    /\ pc = "call"
    /\ MappingIdle

ImputeMissingSchoolFeatures ==
    /\ pc = "call"
    /\ fn = "impute_missing_school_features"
    /\ ret' = impute_missing_school_features(args.listings_gdf)
    /\ pc' = "done"
    /\ UNCHANGED <<fn, args, instance, world>>

NextSchool == ImputeMissingSchoolFeatures

SpecSchool == InitSchool /\ [][NextSchool]_vars

\* The four fields of an entry.
FourFields(e) ==
    <<e.best_school_name, e.best_school_coord, e.best_score, e.best_dist_km>>

Complete(e) == \A k \in 1..4 : NotNull(FourFields(e)[k])

Missing(e) == \A k \in 1..4 : IsNull(FourFields(e)[k])

\* Row i of the returned table holds, for target, what the fallback chain
\* prescribes for a target missing in the input: the four fields of the
\* first candidate of the chain that is complete in the row, or four nulls
\* when no candidate is.
FallbackApplied(i, target) ==
    LET row == args.listings_gdf[i]
        chain == fallback(target)
        ok == {k \in 1..Len(chain) : Complete(row[chain[k]])}
    IN  IF ok = {}
        THEN Missing(ret[i][target])
        ELSE LET first == CHOOSE k \in ok : \A m \in ok : k <= m
             IN  FourFields(ret[i][target]) = FourFields(row[chain[first]])

\* C7: for each of the six targets and every row in which the target's four
\* fields are all null, the four fields are copied together from the first
\* complete band of the target's fallback chain, and stay null when no band
\* of the chain is complete.
C7_SchoolFallback ==
    pc = "done" =>
        \A i \in 1..Len(args.listings_gdf) : \A target \in TokenSet :
            Missing(args.listings_gdf[i][target]) => FallbackApplied(i, target)

\* The same for the five targets the loop runs over.
SchoolFallbackOfLoopTargets ==
    pc = "done" =>
        \A i \in 1..Len(args.listings_gdf) :
            \A target \in {targets[k] : k \in 1..Len(targets)} :
                Missing(args.listings_gdf[i][target]) => FallbackApplied(i, target)

\* A row whose walking_5min is filled from a band that is not the first of
\* its chain.
SchoolFallbackReached ==
    /\ pc = "done"
    /\ \E i \in 1..Len(args.listings_gdf) :
          /\ Missing(args.listings_gdf[i]["walking_5min"])
          /\ ~Complete(args.listings_gdf[i]["walking_10min"])
          /\ Complete(args.listings_gdf[i]["driving_5min"])
          /\ Complete(ret[i]["walking_5min"])

(***************************************************************************)
(* parse_property_features (preprocess.py 1289-1354)                       *)
(***************************************************************************)

\* The two characters of the feature strings outside ASCII: the minus sign
\* that stands for a missing value, and the superscript two of "m2".
MinusSign == "U+2212"

SuperTwo == "U+00B2"

RECURSIVE RStrip(_, _)
RStrip(s, cs) ==
    IF s # <<>> /\ s[Len(s)] \in cs THEN RStrip(SubSeq(s, 1, Len(s) - 1), cs)
    ELSE s

\* s.strip()
Strip(s) == RStrip(LStrip(s, {" "}), {" "})

\* sub in s
Contains(s, sub) == FindFrom(s, sub, 1) <= Len(s)

\* s.replace(sub, "")
Remove(s, sub) == Concat(Split(s, sub))

\* The outcome of a conversion: a value, or the ValueError it raises.
Ok(v) == [raised |-> FALSE, value |-> v]

ValueError == [raised |-> TRUE, value |-> 0]

\* int(s) of a string: surrounding blanks and one sign are allowed around
\* a non-empty run of digits.
int_of_str(s) ==
    LET t == Strip(s)
        signed == t # <<>> /\ t[1] \in {"+", "-"}
        body == IF signed THEN Tail(t) ELSE t
    IN  IF body # <<>> /\ \A i \in 1..Len(body) : body[i] \in Digits
        THEN Ok(IF signed /\ t[1] = "-" THEN 0 - DigitsToInt(body)
                ELSE DigitsToInt(body))
        ELSE ValueError

\* r doubled k times modulo m.
RECURSIVE DoubleMod(_, _, _)
DoubleMod(r, k, m) == IF k = 0 THEN r ELSE DoubleMod((2 * r) % m, k - 1, m)

\* The largest e with m * 2^e <= n, for n >= m.
RECURSIVE Log2Floor(_, _)
Log2Floor(n, m) == IF 2 * m <= n THEN 1 + Log2Floor(n, 2 * m) ELSE 0

\* The smallest j with n * 2^j >= m, for 0 < n < m.
RECURSIVE Log2Ceil(_, _)
Log2Ceil(n, m) == IF n >= m THEN 0 ELSE 1 + Log2Ceil(2 * n, m)

\* int(float(x) * 10000) for the decimal literal x = n / 10^p, p <= 4, in
\* IEEE-754 double arithmetic.  float(x) is x rounded to 53 bits; when it is
\* rounded down by t/d of a unit in the last place, the product falls short
\* of n * 10^(4-p) and, if it falls short by more than half a unit of the
\* product, is rounded to the double below it, which int() truncates.
ha_to_m2(n, p) ==
    LET d == Pow(10, p)
        exact == n * Pow(10, 4 - p)
        e == IF n >= d THEN Log2Floor(n, d) ELSE 0 - Log2Ceil(n, d)
        low == IF e >= 0 THEN n * 625 < 1024 * d * Pow(2, e)
               ELSE n * Pow(2, 0 - e) * 625 < 1024 * d
        t == DoubleMod(n % d, 52 - e, d)
    IN  IF n = 0 THEN 0
        ELSE IF low /\ 2 * t < d /\ 625 * t > 256 * d THEN exact - 1
        ELSE exact

\* int(float(s) * 10000) of a string: an optional sign and digits with at
\* most one point (the literals of the model have at most four decimals).
int_of_hectares(s) ==
    LET t == Strip(s)
        signed == t # <<>> /\ t[1] \in {"+", "-"}
        body == IF signed THEN Tail(t) ELSE t
        dot == FindFrom(body, <<".">>, 1)
        whole == SubSeq(body, 1, dot - 1)
        frac == SubSeq(body, dot + 1, Len(body))
        digits == whole \o frac
    IN  IF /\ digits # <<>>
           /\ \A i \in 1..Len(digits) : digits[i] \in Digits
           /\ Len(frac) <= 4
        THEN LET m == ha_to_m2(DigitsToInt(digits), Len(frac)) IN
             Ok(IF signed /\ t[1] = "-" THEN 0 - m ELSE m)
        ELSE ValueError

\* The land area read from val, a token that contains "ha" or "m2": None
\* when nothing but the unit or the minus sign is left.
land_area_of(val) ==
    IF Contains(val, <<"h", "a">>)
    THEN LET land_area_str == Strip(Remove(Remove(val, <<"h", "a">>), <<",">>))
         IN  IF land_area_str # <<>> /\ land_area_str # <<MinusSign>>
             THEN LET r == int_of_hectares(land_area_str) IN
                  IF r.raised THEN r ELSE Ok(Some(r.value))
             ELSE Ok(None)
    ELSE LET land_area_str == Strip(Remove(Remove(val, <<"m", SuperTwo>>), <<",">>))
         IN  IF land_area_str # <<>> /\ land_area_str # <<MinusSign>>
             THEN LET r == int_of_str(land_area_str) IN
                  IF r.raised THEN r ELSE Ok(Some(r.value))
             ELSE Ok(None)

\* None if val == "-" or val == "" else int(val)
count_of(val) ==
    IF val = <<MinusSign>> \/ val = <<>> THEN Ok(None)
    ELSE LET r == int_of_str(val) IN
         IF r.raised THEN r ELSE Ok(Some(r.value))

\* parts[k].strip().rstrip(",")
slot(parts, k) == RStrip(Strip(parts[k]), {","})

is_land(val) == Contains(val, <<"h", "a">>) \/ Contains(val, <<"m", SuperTwo>>)

\* parse_property_features: the four values of the returned Series, or the
\* ValueError of the first conversion that fails.
parse_property_features(feature_string) ==
    LET parts == Split(feature_string, <<",", " ", ",">>)
        first_is_land == is_land(slot(parts, 1))
        land0 == IF first_is_land THEN land_area_of(slot(parts, 1)) ELSE Ok(None)
        bedrooms == IF first_is_land THEN Ok(None) ELSE count_of(slot(parts, 1))
        bathrooms == IF Len(parts) > 1 THEN count_of(slot(parts, 2)) ELSE Ok(None)
        car_spaces == IF Len(parts) > 2 THEN count_of(slot(parts, 3)) ELSE Ok(None)
        land3 == IF Len(parts) > 3 /\ is_land(slot(parts, 4))
                 THEN land_area_of(slot(parts, 4)) ELSE Ok(None)
    IN  IF land0.raised \/ bedrooms.raised \/ bathrooms.raised \/ car_spaces.raised
        THEN ValueError
        ELSE IF IsNull(land0.value) /\ land3.raised THEN ValueError
        ELSE Ok(<<bedrooms.value, bathrooms.value, car_spaces.value,
                  IF NotNull(land0.value) THEN land0.value ELSE land3.value>>)

(***************************************************************************)
(* Specification of one parse_property_features call                       *)
(***************************************************************************)
MaxSlots == 4

\* The tokens the feature strings of the model are put together from, each
\* with what it stands for: a count n, a missing value, an area of n square
\* metres, an area of n / 10^p hectares, or nothing the format provides for.
SlotTokens ==
    { [text |-> <<"3">>,
       kind |-> "int", n |-> 3, p |-> 0],
      [text |-> <<"1", "2">>,
       kind |-> "int", n |-> 12, p |-> 0],
      [text |-> <<MinusSign>>,
       kind |-> "placeholder", n |-> 0, p |-> 0],
      [text |-> <<>>,
       kind |-> "empty", n |-> 0, p |-> 0],
      [text |-> <<"4", "5", "0", "m", SuperTwo>>,
       kind |-> "m2", n |-> 450, p |-> 0],
      [text |-> <<"5", ",", "0", "3", "0", "m", SuperTwo>>,
       kind |-> "m2", n |-> 5030, p |-> 0],
      [text |-> <<"0", ".", "5", "7", "h", "a">>,
       kind |-> "ha", n |-> 57, p |-> 2],
      [text |-> <<"1", ".", "5", "h", "a">>,
       kind |-> "ha", n |-> 15, p |-> 1],
      [text |-> <<"1", "2", ".", "5", "1", "h", "a">>,
       kind |-> "ha", n |-> 1251, p |-> 2],
      [text |-> <<"x">>,
       kind |-> "junk", n |-> 0, p |-> 0],
      [text |-> <<"2", ".", "5">>,
       kind |-> "junk", n |-> 0, p |-> 0] }

\* The feature string of a sequence of tokens: the tokens separated by
\* ", ," and closed by ",".
FeatureString(ts) ==
    IF ts = <<>> THEN <<>>
    ELSE Join([k \in 1..Len(ts) |-> ts[k].text], <<",", " ", ",">>) \o <<",">>

InitFeatures ==
    /\ fn = "parse_property_features"
    /\ \E ts \in SeqsUpTo(SlotTokens, MaxSlots) :
           args = [feature_string |-> FeatureString(ts), slots |-> ts]
    /\ ret = None
    /\ pc = "call"
    /\ MappingIdle

\* One call; a ValueError leaves the function without a return value.
ParsePropertyFeatures ==
    /\ pc = "call"
    /\ fn = "parse_property_features"
    /\ LET r == parse_property_features(args.feature_string) IN
       IF r.raised
       THEN pc' = Raised /\ ret' = None
       ELSE pc' = "done" /\ ret' = r.value
    /\ UNCHANGED <<fn, args, instance, world>>

NextFeatures == ParsePropertyFeatures

SpecFeatures == InitFeatures /\ [][NextFeatures]_vars

\* The feature string is of the form "b, ,ba, ,c," with an optional fourth
\* token in square metres or hectares.
WellFormedFeatures ==
    /\ Len(args.slots) \in {3, 4}
    /\ \A k \in 1..3 : args.slots[k].kind \in {"int", "placeholder"}
    /\ Len(args.slots) = 4 => args.slots[4].kind \in {"m2", "ha"}

\* The count a token stands for.
CountOf(tok) == IF tok.kind = "int" THEN Some(tok.n) ELSE None

\* The area in square metres a token stands for: hectares times 10000,
\* which is a whole number for at most four decimals.
AreaOf(tok) == IF tok.kind = "ha" THEN tok.n * Pow(10, 4 - tok.p) ELSE tok.n

\* C9: a feature string "b, ,ba, ,c," of integers and placeholders is parsed
\* to (b, ba, c, null), with a fourth token "XXXm2" to land area XXX and with
\* a fourth token "X.XXha" to land area X.XX * 10000 rounded to an integer.
C9_ParseFeatures ==
    (pc # "call" /\ WellFormedFeatures) =>
        /\ pc = "done"
        /\ ret = <<CountOf(args.slots[1]), CountOf(args.slots[2]),
                   CountOf(args.slots[3]),
                   IF Len(args.slots) = 4 THEN Some(AreaOf(args.slots[4]))
                   ELSE None>>

\* The same with hectares converted as the code converts them: the area is
\* the exact product or one below it.
ParseFeaturesTruncating ==
    (pc # "call" /\ WellFormedFeatures) =>
        /\ pc = "done"
        /\ ret[1] = CountOf(args.slots[1])
        /\ ret[2] = CountOf(args.slots[2])
        /\ ret[3] = CountOf(args.slots[3])
        /\ Len(args.slots) = 3 => ret[4] = None
        /\ Len(args.slots) = 4 =>
              /\ NotNull(ret[4])
              /\ Val(ret[4]) \in {AreaOf(args.slots[4]), AreaOf(args.slots[4]) - 1}
              /\ args.slots[4].kind = "m2" => Val(ret[4]) = AreaOf(args.slots[4])

\* A hectare value is returned one square metre short of the product.
HectaresTruncated ==
    /\ pc = "done"
    /\ WellFormedFeatures
    /\ Len(args.slots) = 4
    /\ ret[4] = Some(AreaOf(args.slots[4]) - 1)

\* C10: the function never raises; a token with "ha" or "m2" in the
\* bedrooms, bathrooms or car-spaces slot is read as the land area, and a
\* token that is not an integer, a placeholder or a land area gives null
\* for its field.
C10_ParseNeverRaises ==
    /\ pc # Raised
    /\ pc = "done" =>
          \A k \in 1..3 :
              k <= Len(args.slots) =>
                  /\ args.slots[k].kind \in {"m2", "ha"} =>
                        /\ ret[k] = None
                        /\ NotNull(ret[4])
                  /\ args.slots[k].kind \in {"junk", "empty"} => ret[k] = None

\* A call that raised.
ParseRaised == pc = Raised

(***************************************************************************)
(* Specification of the stratified sample: one call of                     *)
(* combine_and_sample_listings on tables of several strata                 *)
(***************************************************************************)
MaxSampleRows == 4

\* sample_ratio: the default 0.5, and 0.1 and 0.75.
StrataRatios == {[n |-> 1, d |-> 2], [n |-> 1, d |-> 10], [n |-> 3, d |-> 4]}

\* What a row of the tables is: its bedrooms, and whether it is a further
\* listing of the property of the row before it.
SampleShapes == [bedrooms : {2, 3}, again : BOOLEAN]

\* The property of row i: its own, or that of the row before it.
RECURSIVE SamplePid(_, _)
SamplePid(shapes, i) ==
    IF i > 1 /\ shapes[i].again THEN SamplePid(shapes, i - 1) ELSE i

\* The rows of the shapes, each observed a quarter after the one before.
SampleTable(shapes) ==
    [i \in 1..Len(shapes) |->
        [property_id |-> SamplePid(shapes, i), rental_price |-> 400 + i,
         suburb |-> Some(SouthYarra), property_type |-> House,
         bedrooms |-> Some(shapes[i].bedrooms),
         bathrooms |-> Some(1), car_spaces |-> Some(1),
         year |-> 2024, quarter |-> i]]

InitSample ==
    /\ fn = "combine_and_sample_listings"
    /\ \E shapes \in SeqsUpTo(SampleShapes, MaxSampleRows) :
          \E k \in 0..Len(shapes), r \in StrataRatios :
              LET t == SampleTable(shapes) IN
              args = [live_df |-> SubSeq(t, 1, k),
                      wayback_df |-> SubSeq(t, k + 1, Len(t)),
                      sample_ratio |-> r]
    /\ ret = None
    /\ pc = "call"
    /\ MappingIdle

NextSample == CombineAndSampleListings

SpecSample == InitSample /\ [][NextSample]_vars

\* The rows of the table or set rows in the stratum of row r.
InStratum(rows, r) ==
    {x \in rows : /\ x.property_type = r.property_type
                  /\ x.suburb = r.suburb
                  /\ x.bedrooms = r.bedrooms}

CandidatesAt(i) ==
    {j \in 1..Len(args.df) \ {i} :
        \/ CompleteInput(j)
        \/ j < i /\ \A c \in Targets : NotNull(ret.results[c][j])}

\* The candidates of the search that fills row i: those of its suburb, or
\* all of them when its suburb has none.
SearchedAt(i) ==
    LET same == {j \in CandidatesAt(i) : args.df[j].suburb = args.df[i].suburb}
    IN  IF same # {} THEN same ELSE CandidatesAt(i)

\* The cells of row i that the call filled.
FilledCells(i) ==
    {c \in Targets : IsNull(args.df[i][c]) /\ NotNull(ret.results[c][i])}

\* C12: all cells filled in one row are copies of the cells of one single
\* row, a candidate holding every target column and no farther from the row
\* than any other candidate of the search.
C12_SingleSource ==
    pc = "done" =>
        \A i \in 1..Len(args.df) :
            FilledCells(i) # {} =>
                \E j \in SearchedAt(i) :
                    /\ \A c \in FilledCells(i) :
                          ret.results[c][i] = ret.results[c][j]
                    /\ \A k \in SearchedAt(i) :
                          distance2(args.df[i].coordinates, args.df[j].coordinates)
                             <= distance2(args.df[i].coordinates,
                                          args.df[k].coordinates)

\* A row with both columns null and two complete rows to take them from:
\* both cells are those of the nearer one.
C12_Witness ==
    /\ pc = "done"
    /\ Len(args.column_names) = 2
    /\ \E i, j, k \in 1..Len(args.df) :
          /\ \A c \in Targets : IsNull(args.df[i][c])
          /\ CompleteInput(j) /\ CompleteInput(k) /\ j # k
          /\ args.df[j].suburb = args.df[k].suburb
          /\ distance2(args.df[i].coordinates, args.df[j].coordinates)
                < distance2(args.df[i].coordinates, args.df[k].coordinates)
          /\ \A c \in Targets : ret.results[c][i] = args.df[j][c]

\* C13: in preprocess_wayback_listings the table the per-property-type modes
\* are computed over is already deduplicated: it holds no two rows of one
\* property_id.
C13_ImputeAfterDedup ==
    (pc = "done" /\ fn = "preprocess_wayback_listings") =>
        \A i, j \in 1..Len(ret.filtered) :
            i # j => ret.filtered[i].property_id # ret.filtered[j].property_id

\* The modes are computed over a table that holds the two observations of
\* one property, of which the deduplication afterwards keeps one.
ImputedBeforeDedup ==
    /\ pc = "done"
    /\ fn = "preprocess_wayback_listings"
    /\ Cardinality(RowsOf(ret.imputed, 1)) = 2
    /\ Cardinality(RowsOf(ret.deduped, 1)) = 1

\* ---------------------------------------------------------------------
\* School rank, goodness and score (preprocess.py, add_school_rankings,
\* calculate_school_goodness, find_best_schools_per_isochrone.score_row)
\* ---------------------------------------------------------------------

\* The rank given to a secondary or pri/sec school that the ranking table
\* does not list.
DefaultRank == 101

\* assign_rank: the exact lookup, then the fuzzy one; a rank that is truthy
\* is returned, otherwise the school type decides between no rank and the
\* default rank.  lookup and fuzzy are the results of lookup_norm.get and of
\* lookup_fuzzy for the row's name; school_type is already stripped and
\* lower-cased.
assign_rank(row) ==
    LET rank == IF IsNull(row.lookup) THEN row.fuzzy ELSE row.lookup IN
    IF NotNull(rank) /\ Val(rank) # 0 THEN rank
    ELSE IF row.school_type \notin {"secondary", "pri/sec"} THEN None
    ELSE Some(DefaultRank)

\* a * b / 2^28 for 0 <= a, b < 2^30, the product taken limb by limb so
\* that no intermediate value reaches 2^31.
FixMul(a, b) ==
    LET H == 16384
        a1 == a \div H
        a0 == a % H
        b1 == b \div H
        b0 == b % H
    IN a1 * b1 + ((a1 * b0 + a0 * b1) + ((a0 * b0) \div H)) \div H

\* The first k binary digits of log2(x / 2^28) for 2^28 <= x < 2^29, by
\* repeated squaring.
RECURSIVE Log2Digits(_, _, _)
Log2Digits(x, k, acc) ==
    IF k = 0 THEN acc
    ELSE LET y == FixMul(x, x) IN
         IF y >= 536870912
         THEN Log2Digits(y \div 2, k - 1, 2 * acc + 1)
         ELSE Log2Digits(y, k - 1, 2 * acc)

\* np.log(rank) in units of ln(2) / 2^24, rounded down: the quotient of two
\* logarithms, which is all the code uses, does not depend on the unit.
np_log(rank) ==
    LET e == Log2Floor(rank, 1) IN
    e * 16777216 + Log2Digits(rank * Pow(2, 28 - e), 24, 0)

\* The first k decimal digits of t / den after the point, as an integer,
\* for 0 <= t < den.
RECURSIVE DecimalDigits(_, _, _)
DecimalDigits(t, den, k) ==
    IF k = 0 THEN 0
    ELSE ((10 * t) \div den) * Pow(10, k - 1)
            + DecimalDigits((10 * t) % den, den, k - 1)

\* school_goodness: "N/A" (None here) for a null rank, otherwise
\* round(1 - (np.log(rank) / np.log(101) + eps), 4) with eps = 0.0001, in
\* ten-thousandths.  The quotient is taken to five decimals, which settles
\* the rounding to four: no rank of 1..101 is within 0.01 ten-thousandths of
\* a tie.
school_goodness(rank) ==
    IF IsNull(rank) THEN None
    ELSE LET num == np_log(Val(rank))
             den == np_log(101)
             x5  == (num \div den) * 100000 + DecimalDigits(num % den, den, 5)
             eps == 10
         IN Some(((100000 - (x5 + eps)) + 4) \div 10)

\* score_row with beta = 0.2: goodness / (1 + beta * dist_km), for a
\* goodness in ten-thousandths and a distance in metres, as a fraction.
score_row(goodness, dist_m) == Num(goodness, 2 * (5000 + dist_m))

\* The value finalize_school_features writes into a null score.
ScoreFill == Num(3, 100000000)

\* a > 3e-8 for a fraction a with a positive denominator.
AboveScoreFill(a) ==
    /\ a.n > 0
    /\ (ScoreFill.n * a.d) \div a.n < ScoreFill.d

\* ---- One school through ranking, goodness and score ----

MaxRank == 100

SchoolTypes == {"secondary", "pri/sec", "primary", "special"}

SchoolDistances == {0, 1500, 5000}

InitGoodness ==
    /\ fn = "add_school_rankings"
    /\ \E l \in {None} \cup {Some(r) : r \in 1..MaxRank},
          f \in {None, Some(MaxRank \div 2)},
          t \in SchoolTypes, m \in SchoolDistances :
          args = [lookup |-> l, fuzzy |-> f, school_type |-> t, dist_m |-> m]
    /\ ret = None
    /\ pc = "call"
    /\ MappingIdle

AddSchoolRankings ==
    /\ pc = "call"
    /\ fn = "add_school_rankings"
    /\ ret' = [vic_secondary_rank |-> assign_rank(args)]
    /\ pc' = "ranked"
    /\ UNCHANGED <<fn, args, instance, world>>

CalculateSchoolGoodness ==
    /\ pc = "ranked"
    /\ fn = "add_school_rankings"
    /\ ret' = [vic_secondary_rank |-> ret.vic_secondary_rank,
               school_goodness |-> school_goodness(ret.vic_secondary_rank)]
    /\ pc' = "rated"
    /\ UNCHANGED <<fn, args, instance, world>>

\* The score of the school for a listing whose isochrone covers it: NaN
\* (None) when the goodness is not a number.
ScoreSchool ==
    /\ pc = "rated"
    /\ fn = "add_school_rankings"
    /\ ret' = [vic_secondary_rank |-> ret.vic_secondary_rank,
               school_goodness |-> ret.school_goodness,
               score |-> IF IsNull(ret.school_goodness) THEN None
                         ELSE Some(score_row(Val(ret.school_goodness),
                                             args.dist_m))]
    /\ pc' = "done"
    /\ UNCHANGED <<fn, args, instance, world>>

NextGoodness == AddSchoolRankings \/ CalculateSchoolGoodness \/ ScoreSchool

SpecGoodness == InitGoodness /\ [][NextGoodness]_vars

\* C14: every school that is scored has a goodness in (0, 1] and a score
\* strictly above the fill value 3e-8, and the goodness is strictly
\* decreasing in the rank over 1..101.
C14_ScoreAboveFill ==
    (pc = "done" /\ fn = "add_school_rankings" /\ NotNull(ret.score)) =>
        LET rank == Val(ret.vic_secondary_rank) IN
        /\ Val(ret.school_goodness) > 0
        /\ Val(ret.school_goodness) <= 10000
        /\ AboveScoreFill(Val(ret.score))
        /\ rank < DefaultRank =>
              Val(ret.school_goodness) > Val(school_goodness(Some(rank + 1)))

\* An unranked secondary school, given the default rank, is scored below
\* zero.
DefaultRankScoredBelowFill ==
    /\ pc = "done"
    /\ fn = "add_school_rankings"
    /\ IsNull(args.lookup) /\ IsNull(args.fuzzy)
    /\ args.school_type = "secondary"
    /\ ret.vic_secondary_rank = Some(DefaultRank)
    /\ Val(ret.school_goodness) = 0 - 1
    /\ ~AboveScoreFill(Val(ret.score))

\* Every ranked school, of a rank within 1..100, has a goodness in (0, 1]
\* above that of the next rank, and is scored above the fill value.
RankedScoredAboveFill ==
    (pc = "done" /\ fn = "add_school_rankings" /\ NotNull(ret.score)
        /\ Val(ret.vic_secondary_rank) < DefaultRank) =>
            /\ Val(ret.school_goodness) > 0
            /\ Val(ret.school_goodness) <= 10000
            /\ Val(ret.school_goodness) >
                  Val(school_goodness(Some(Val(ret.vic_secondary_rank) + 1)))
            /\ AboveScoreFill(Val(ret.score))

\* ---------------------------------------------------------------------
\* finalize_school_features (preprocess.py)
\* ---------------------------------------------------------------------

\* A school feature column is named by its prefix and its band, e.g.
\* <<"best_dist_km_", "driving_5min">> for best_dist_km_driving_5min.
startswith(c, prefix) == c[1] = prefix

columns(df) == IF Len(df) = 0 THEN {} ELSE DOMAIN df[1]

\* The distance columns' maximum taken over every distance column.
column_max_AnyColumn(df, col) ==
    LET cells == {p \in (1..Len(df)) \X columns(df) :
                     /\ startswith(p[2], "best_dist_km_")
                     /\ NotNull(df[p[1]][p[2]])}
        seen == {Val(df[p[1]][p[2]]) : p \in cells}
    IN IF seen = {} THEN None
       ELSE Some(CHOOSE v \in seen : \A w \in seen : w <= v)

\* listings_gdf[col].max(skipna=True): NaN (None) when no cell of the
\* column holds a value.
column_max(df, col) ==
    LET seen == {Val(df[i][col]) : i \in {j \in 1..Len(df) :
                                             NotNull(df[j][col])}}
    IN IF seen = {} THEN None
       ELSE Some(CHOOSE v \in seen : \A w \in seen : w <= v)

\* Series.fillna(value): the null cells take the value, the others stay.
fillna(cell, value) == IF IsNull(cell) THEN Some(value) ELSE cell

finalize_school_features(listings_gdf) ==
    [i \in 1..Len(listings_gdf) |->
        [c \in columns(listings_gdf) |->
            IF startswith(c, "best_score_")
            THEN fillna(listings_gdf[i][c], ScoreFill)
            ELSE IF startswith(c, "best_dist_km_")
            THEN LET max_val == column_max(listings_gdf, c) IN
                 fillna(listings_gdf[i][c],
                        IF NotNull(max_val) THEN Val(max_val) + 1 ELSE 1)
            ELSE IF startswith(c, "n_schools_")
            THEN fillna(listings_gdf[i][c], 0)
            ELSE listings_gdf[i][c]]]

\* ---- Tables of school features ----

MaxFinalRows == 2

\* One score, two distance and one count column, and a column of another
\* kind; distances in whole kilometres.
FinalRows ==
    { [c \in {<<"best_score_", "driving_5min">>,
              <<"best_dist_km_", "driving_5min">>,
              <<"best_dist_km_", "walking_5min">>,
              <<"n_schools_", "driving_5min">>,
              <<"best_school_name_", "driving_5min">>} |->
         IF c = <<"best_score_", "driving_5min">> THEN s
         ELSE IF c = <<"best_dist_km_", "driving_5min">> THEN d1
         ELSE IF c = <<"best_dist_km_", "walking_5min">> THEN d2
         ELSE IF c = <<"n_schools_", "driving_5min">> THEN n
         ELSE None] :
        s \in {None, Some(score_row(8497, 1500))},
        d1 \in {None, Some(1), Some(2)},
        d2 \in {None, Some(1), Some(2)},
        n \in {None, Some(2)} }

InitFinal ==
    /\ fn = "finalize_school_features"
    /\ \E df \in SeqsUpTo(FinalRows, MaxFinalRows) :
          args = [listings_gdf |-> df]
    /\ ret = None
    /\ pc = "call"
    /\ MappingIdle

FinalizeSchoolFeatures ==
    /\ pc = "call"
    /\ fn = "finalize_school_features"
    /\ ret' = finalize_school_features(args.listings_gdf)
    /\ pc' = "done"
    /\ UNCHANGED <<fn, args, instance, world>>

NextFinal == FinalizeSchoolFeatures

SpecFinal == InitFinal /\ [][NextFinal]_vars

\* The largest value a column holds on entry, None when it holds none.
ObservedMax(col) ==
    LET df == args.listings_gdf
        seen == {v \in 0..9 : \E i \in 1..Len(df) : df[i][col] = Some(v)}
    IN IF seen = {} THEN None
       ELSE Some(CHOOSE v \in seen : \A w \in seen : w <= v)

\* C15: after finalize_school_features no best_score_*, best_dist_km_* or
\* n_schools_* cell is null; a cell that was null holds 3e-8 (score), the
\* column's largest observed distance + 1, or 1 when the column had none
\* (distance), or 0 (count); a cell that was not null is unchanged.
C15_Finalized ==
    (pc = "done" /\ fn = "finalize_school_features") =>
        \A i \in 1..Len(ret) : \A c \in DOMAIN ret[i] :
            LET before == args.listings_gdf[i][c]
                after == ret[i][c]
            IN
            /\ NotNull(before) => after = before
            /\ (IsNull(before) /\ startswith(c, "best_score_")) =>
                  after = Some(Num(3, 100000000))
            /\ (IsNull(before) /\ startswith(c, "best_dist_km_")) =>
                  after = IF IsNull(ObservedMax(c)) THEN Some(1)
                          ELSE Some(Val(ObservedMax(c)) + 1)
            /\ (IsNull(before) /\ startswith(c, "n_schools_")) =>
                  after = Some(0)

\* A table with a null score, a null count, a null distance in a column
\* whose largest distance is 1 and a null distance in a column without any
\* distance, while the other distance column holds 2.
C15_Witness ==
    /\ pc = "done"
    /\ fn = "finalize_school_features"
    /\ Len(ret) = 2
    /\ args.listings_gdf[1][<<"best_dist_km_", "driving_5min">>] = Some(1)
    /\ args.listings_gdf[2][<<"best_dist_km_", "driving_5min">>] = None
    /\ ret[2][<<"best_dist_km_", "driving_5min">>] = Some(2)
    /\ args.listings_gdf[1][<<"best_dist_km_", "walking_5min">>] = None
    /\ args.listings_gdf[2][<<"best_dist_km_", "walking_5min">>] = None
    /\ ret[1][<<"best_dist_km_", "walking_5min">>] = Some(1)
    /\ args.listings_gdf[1][<<"best_score_", "driving_5min">>] = None
    /\ ret[1][<<"best_score_", "driving_5min">>] = Some(ScoreFill)
    /\ args.listings_gdf[1][<<"n_schools_", "driving_5min">>] = None
    /\ ret[1][<<"n_schools_", "driving_5min">>] = Some(0)

\* ---------------------------------------------------------------------
\* find_best_schools_per_isochrone (preprocess.py)
\* ---------------------------------------------------------------------

\* An isochrone cell is null (None) or a string: value holds its characters
\* and loads what wkt.loads makes of it, the set of the schools the polygon
\* covers, or None when wkt.loads raises.
\* safe_wkt: null, blank and unparsable cells give None.
safe_wkt(cell) ==
    IF IsNull(cell) THEN None
    ELSE IF Strip(Val(cell).value) = <<>> THEN None
    ELSE Val(cell).loads

\* The listings that have a polygon in column col (a listing's property_id
\* is its index).
iso_poly(listings_gdf, col) ==
    {i \in 1..Len(listings_gdf) : NotNull(safe_wkt(listings_gdf[i].iso[col]))}

\* gpd.sjoin(how="left", predicate="covers"): one row per listing and
\* covered school, and one row without a school for a listing whose polygon
\* covers none.
sjoin(listings_gdf, schools_gdf, col) ==
    UNION {LET covered == Val(safe_wkt(listings_gdf[i].iso[col]))
                              \cap (1..Len(schools_gdf))
           IN IF covered = {}
              THEN {[property_id |-> i, school |-> None]}
              ELSE {[property_id |-> i, school |-> Some(s)] : s \in covered}
           : i \in iso_poly(listings_gdf, col)}

\* Every joined row passes.
year_mask_Always(listings_gdf, schools_gdf, row) == TRUE

\* establishment_year.isna() | (establishment_year <= year); a row without
\* a school has no establishment year.
year_mask(listings_gdf, schools_gdf, row) ==
    \/ IsNull(row.school)
    \/ IsNull(schools_gdf[Val(row.school)].establishment_year)
    \/ Val(schools_gdf[Val(row.school)].establishment_year)
          <= listings_gdf[row.property_id].year

joined(listings_gdf, schools_gdf, col) ==
    {row \in sjoin(listings_gdf, schools_gdf, col) :
        year_mask(listings_gdf, schools_gdf, row)}

\* The score of a joined row: NA (None) without a school or when the
\* school's goodness is "N/A".
row_score(schools_gdf, row) ==
    IF IsNull(row.school) THEN None
    ELSE IF IsNull(schools_gdf[Val(row.school)].school_goodness) THEN None
    ELSE Some(score_row(Val(schools_gdf[Val(row.school)].school_goodness),
                        schools_gdf[Val(row.school)].dist_m))

ScoreLeq(a, b) == a.n * b.d <= b.n * a.d

\* groupby("property_id")["school_name"].count(): the listings that have a
\* joined row, each with the number of its rows that name a school.
count(rows, i) ==
    IF \E row \in rows : row.property_id = i
    THEN Some(Cardinality({row \in rows :
                              row.property_id = i /\ NotNull(row.school)}))
    ELSE None

\* dropna(subset=["score"]).sort_values("score", ascending=False)
\* .groupby("property_id").head(1): the rows that can come first for
\* listing i, those of the largest score (the sort is not a stable one).
best_inside(schools_gdf, rows, i) ==
    LET scored == {row \in rows : /\ row.property_id = i
                                  /\ NotNull(row_score(schools_gdf, row))}
    IN {row \in scored :
           \A other \in scored :
               ScoreLeq(Val(row_score(schools_gdf, other)),
                        Val(row_score(schools_gdf, row)))}

\* The columns of one band for a listing without any value.
no_features ==
    [best_school_name |-> None, best_school_coord |-> None,
     best_score |-> None, best_dist_km |-> None, n_schools |-> None]

\* The columns of band col for listing i when best is the school of the row
\* taken for it (None when it has no scored row): the out frame holds the
\* listings with a polygon, the count frame those with a joined row.
band_features(listings_gdf, schools_gdf, col, i, best) ==
    IF i \notin iso_poly(listings_gdf, col) THEN no_features
    ELSE [best_school_name |-> best,
          best_school_coord |-> best,
          best_score |->
              IF IsNull(best) THEN None
              ELSE row_score(schools_gdf, [property_id |-> i, school |-> best]),
          best_dist_km |->
              IF IsNull(best) THEN None
              ELSE Some(schools_gdf[Val(best)].dist_m),
          n_schools |-> count(joined(listings_gdf, schools_gdf, col), i)]

\* The bands that append to all_results: those whose joined frame is not
\* empty.
appended(listings_gdf, schools_gdf, iso_columns) ==
    {iso_columns[k] : k \in {j \in 1..Len(iso_columns) :
        joined(listings_gdf, schools_gdf, iso_columns[j]) # {}}}

\* The schools the head(1) of listing i in band col can name, None alone
\* when the listing has no scored row.
heads(listings_gdf, schools_gdf, col, i) ==
    LET b == best_inside(schools_gdf, joined(listings_gdf, schools_gdf, col), i)
    IN IF b = {} THEN {None} ELSE {row.school : row \in b}

\* The tables find_best_schools_per_isochrone can return, one for each way
\* the sort orders rows of equal score: columns holds the bands whose
\* columns exist, gdf the cells (those of a band without columns are left
\* null).  pd.concat of an empty all_results raises ValueError.
find_best_schools_per_isochrone(listings_gdf, schools_gdf, iso_columns) ==
    LET cols == appended(listings_gdf, schools_gdf, iso_columns)
        n == Len(listings_gdf)
        head == [p \in (1..n) \X cols |->
                    heads(listings_gdf, schools_gdf, p[2], p[1])]
        tied == {p \in (1..n) \X cols : Cardinality(head[p]) > 1}
        picks == {f \in [tied -> {Some(s) : s \in 1..Len(schools_gdf)}] :
                     \A p \in tied : f[p] \in head[p]}
    IN IF cols = {} THEN {ValueError}
       ELSE {[raised |-> FALSE,
              value |-> [columns |-> cols,
                         gdf |-> [i \in 1..n |-> [tok \in TokenSet |->
                             IF tok \in cols
                             THEN band_features(
                                      listings_gdf, schools_gdf, tok, i,
                                      IF <<i, tok>> \in tied THEN f[<<i, tok>>]
                                      ELSE CHOOSE b \in head[<<i, tok>>] : TRUE)
                             ELSE no_features]]]] : f \in picks}

\* impute_missing_school_features on a table that has the columns of the
\* bands in columns only: a band without columns is never available and
\* never a target, so its cells stay as they are.
impute_missing_of_columns(found) ==
    LET filled == impute_missing_school_features(found.gdf) IN
    [columns |-> found.columns,
     gdf |-> [i \in 1..Len(found.gdf) |-> [tok \in TokenSet |->
                 IF tok \in found.columns THEN filled[i][tok]
                 ELSE found.gdf[i][tok]]]]

\* ---- Listings with isochrones, schools, and the two steps ----

MaxBestListings == 2

Polygon(S) == Some([value |-> <<"P">>, loads |-> Some(S)])

\* A null cell, a blank string, a string wkt.loads rejects, and polygons
\* covering no school or school 1.
IsoCells ==
    {None,
     Some([value |-> <<" ">>, loads |-> None]),
     Some([value |-> <<"x">>, loads |-> None]),
     Polygon({}), Polygon({1})}

BestColumns == <<"driving_5min", "driving_10min">>

\* Listings observed in 2023; the 10-minute polygon, where there is one,
\* covers both schools.
BestListings ==
    {[year |-> 2023,
      iso |-> [c \in {"driving_5min", "driving_10min"} |->
                  IF c = "driving_5min" THEN a ELSE b]] :
        a \in IsoCells, b \in {None, Polygon({1, 2})}}

\* Two schools; the first at the listings' point, the second there or one
\* kilometre away.
BestSchools ==
    {<<[establishment_year |-> y1, school_goodness |-> g1, dist_m |-> 0],
       [establishment_year |-> y2, school_goodness |-> g2, dist_m |-> m2]>> :
        y1 \in {None, Some(2024)},
        g1 \in {None, Some(4000), Some(6000)},
        y2 \in {Some(2019), Some(2024)},
        g2 \in {None, Some(6000)},
        m2 \in {0, 1000}}

InitBest ==
    /\ fn = "process_school_features_workflow"
    /\ \E ls \in SeqsUpTo(BestListings, MaxBestListings), ss \in BestSchools :
          args = [listings_gdf |-> ls, schools_gdf |-> ss,
                  iso_columns |-> BestColumns]
    /\ ret = None
    /\ pc = "call"
    /\ MappingIdle

FindBestSchoolsPerIsochrone ==
    /\ pc = "call"
    /\ fn = "process_school_features_workflow"
    /\ \E r \in find_best_schools_per_isochrone(args.listings_gdf,
                                                args.schools_gdf,
                                                args.iso_columns) :
          IF r.raised
          THEN pc' = Raised /\ ret' = None
          ELSE pc' = "found" /\ ret' = r.value
    /\ UNCHANGED <<fn, args, instance, world>>

ImputeMissingFound ==
    /\ pc = "found"
    /\ fn = "process_school_features_workflow"
    /\ ret' = impute_missing_of_columns(ret)
    /\ pc' = "done"
    /\ UNCHANGED <<fn, args, instance, world>>

NextBest == FindBestSchoolsPerIsochrone \/ ImputeMissingFound

SpecBest == InitBest /\ [][NextBest]_vars

\* The schools the polygon of listing i in band col covers, none without a
\* polygon.
Covered(i, col) ==
    LET g == safe_wkt(args.listings_gdf[i].iso[col]) IN
    IF IsNull(g) THEN {} ELSE Val(g) \cap (1..Len(args.schools_gdf))

\* School s existed in the observation year of listing i, or its
\* establishment year is unknown.
Eligible(i, s) ==
    \/ IsNull(args.schools_gdf[s].establishment_year)
    \/ Val(args.schools_gdf[s].establishment_year) <= args.listings_gdf[i].year

EligibleCovered(i, col) == {s \in Covered(i, col) : Eligible(i, s)}

BestBands == {BestColumns[k] : k \in 1..Len(BestColumns)}

\* C16: after find_best_schools_per_isochrone, and after the cross-band
\* fallback, the best school of a listing in a band existed in the listing's
\* year (or has no establishment year), and the band's school count is the
\* number of such schools in one of the listing's polygons.
C16_NoAnachronism ==
    (fn = "process_school_features_workflow" /\ pc \in {"found", "done"}) =>
        \A i \in 1..Len(ret.gdf) : \A tok \in ret.columns :
            LET e == ret.gdf[i][tok] IN
            /\ NotNull(e.best_school_name) =>
                  Eligible(i, Val(e.best_school_name))
            /\ NotNull(e.n_schools) =>
                  \E c \in BestBands :
                      Val(e.n_schools) = Cardinality(EligibleCovered(i, c))

\* A listing without a 5-minute polygon whose 10-minute polygon covers both
\* schools, the better one founded after the listing's year: the other one
\* is its best school in both bands, and one school is counted.
C16_Witness ==
    /\ fn = "process_school_features_workflow"
    /\ pc = "done"
    /\ \E i \in 1..Len(ret.gdf) :
          /\ IsNull(args.listings_gdf[i].iso["driving_5min"])
          /\ Covered(i, "driving_10min") = {1, 2}
          /\ ~Eligible(i, 2) /\ Eligible(i, 1)
          /\ args.schools_gdf[2].school_goodness = Some(6000)
          /\ args.schools_gdf[1].school_goodness = Some(4000)
          /\ "driving_5min" \in ret.columns
          /\ ret.gdf[i]["driving_5min"].best_school_name = Some(1)
          /\ ret.gdf[i]["driving_10min"].best_school_name = Some(1)
          /\ ret.gdf[i]["driving_5min"].n_schools = Some(1)
          /\ ret.gdf[i]["driving_10min"].n_schools = Some(1)

\* The score of school s, None when its goodness is "N/A".
ScoreOf(s) ==
    IF IsNull(args.schools_gdf[s].school_goodness) THEN None
    ELSE Some(score_row(Val(args.schools_gdf[s].school_goodness),
                        args.schools_gdf[s].dist_m))

Scored(i, col) == {s \in EligibleCovered(i, col) : NotNull(ScoreOf(s))}

\* The columns of band col exist and hold, for listing i, a best school of
\* the largest score among the covered, eligible, scored schools (none when
\* there is none) and the number of covered eligible schools.
BestAndCount(i, col) ==
    /\ col \in ret.columns
    /\ LET e == ret.gdf[i][col] IN
       /\ IF Scored(i, col) = {} THEN IsNull(e.best_school_name)
          ELSE /\ NotNull(e.best_school_name)
               /\ Val(e.best_school_name) \in Scored(i, col)
               /\ \A s \in Scored(i, col) :
                     ScoreLeq(Val(ScoreOf(s)),
                              Val(ScoreOf(Val(e.best_school_name))))
               /\ e.best_score = ScoreOf(Val(e.best_school_name))
       /\ e.n_schools = Some(Cardinality(EligibleCovered(i, col)))

\* C17: after find_best_schools_per_isochrone, for every listing and band
\* with a polygon, the best school is a covered, year-eligible school of
\* the largest score and n_schools is the number of covered year-eligible
\* schools, scored or not.
C17_BestAndCount ==
    (fn = "process_school_features_workflow" /\ pc = "found") =>
        \A i \in 1..Len(args.listings_gdf) : \A col \in BestBands :
            NotNull(safe_wkt(args.listings_gdf[i].iso[col])) =>
                BestAndCount(i, col)

\* A listing whose polygon covers only schools founded after its year has
\* no count in that band, where the number of eligible schools is 0.
CountMissingWhereAllAnachronistic ==
    /\ fn = "process_school_features_workflow"
    /\ pc = "found"
    /\ \E i \in 1..Len(args.listings_gdf) :
          /\ Covered(i, "driving_5min") = {1}
          /\ EligibleCovered(i, "driving_5min") = {}
          /\ "driving_5min" \in ret.columns
          /\ IsNull(ret.gdf[i]["driving_5min"].n_schools)

\* Where a listing's polygon covers no school, or a school that is
\* year-eligible, the best school and the count are as stated.
BestAndCountWhereJoined ==
    (fn = "process_school_features_workflow" /\ pc = "found") =>
        \A i \in 1..Len(args.listings_gdf) : \A col \in BestBands :
            (/\ NotNull(safe_wkt(args.listings_gdf[i].iso[col]))
             /\ (Covered(i, col) = {} \/ EligibleCovered(i, col) # {})) =>
                BestAndCount(i, col)

\* C18: find_best_schools_per_isochrone does not raise, whatever the
\* isochrone cells hold, and a listing without a polygon in a band has null
\* school features in it.
C18_NeverRaises ==
    fn = "process_school_features_workflow" =>
        /\ pc # Raised
        /\ pc = "found" =>
              \A i \in 1..Len(args.listings_gdf) : \A col \in BestBands :
                  IsNull(safe_wkt(args.listings_gdf[i].iso[col])) =>
                      /\ col \in ret.columns
                      /\ ret.gdf[i][col] = no_features

\* Listings whose isochrone cells are all null, blank or unparsable: the
\* call raises.
RaisedWithoutPolygons ==
    /\ fn = "process_school_features_workflow"
    /\ pc = Raised
    /\ Len(args.listings_gdf) = 2
    /\ \A i \in 1..2 : \A col \in BestBands :
          IsNull(safe_wkt(args.listings_gdf[i].iso[col]))
    /\ \E i \in 1..2 : args.listings_gdf[i].iso["driving_5min"]
                          = Some([value |-> <<"x">>, loads |-> None])

\* When some listing has a polygon with a joined row in a band, a listing
\* without a polygon in it has null features there.
NoPolygonGivesNullFeatures ==
    (fn = "process_school_features_workflow" /\ pc = "found") =>
        \A i \in 1..Len(args.listings_gdf) : \A col \in ret.columns :
            IsNull(safe_wkt(args.listings_gdf[i].iso[col])) =>
                ret.gdf[i][col] = no_features

\* ---------------------------------------------------------------------
\* create_row_normalized_spatial_matrix (geo.py)
\* ---------------------------------------------------------------------

\* Sum and quotient of two fractions, in lowest terms.
Reduced(a) ==
    LET g == GCD(IF a.n < 0 THEN 0 - a.n ELSE a.n, a.d) IN
    IF g = 0 THEN a ELSE Num(a.n \div g, a.d \div g)

NumAdd(a, b) == Reduced(Num(a.n * b.d + b.n * a.d, a.d * b.d))

NumDiv(a, b) == Reduced(Num(a.n * b.d, a.d * b.n))

RECURSIVE NumSum(_)
NumSum(row) ==
    IF row = <<>> THEN Num(0, 1) ELSE NumAdd(Head(row), NumSum(Tail(row)))

\* The largest entry of each row.
row_totals_Max(spatial_matrix) ==
    [i \in 1..Len(spatial_matrix) |->
        LET row == spatial_matrix[i] IN
        row[CHOOSE j \in 1..Len(row) :
                \A k \in 1..Len(row) : row[k].n * row[j].d <= row[j].n * row[k].d]]

\* spatial_matrix.sum(axis=1)
row_totals(spatial_matrix) ==
    [i \in 1..Len(spatial_matrix) |-> NumSum(spatial_matrix[i])]

\* spatial_matrix.div(row_totals.replace(0, np.nan), axis=0).fillna(0): a
\* row of total 0 is divided by NaN and its cells are then filled with 0.
create_row_normalized_spatial_matrix(spatial_matrix) ==
    LET totals == row_totals(spatial_matrix) IN
    [i \in 1..Len(spatial_matrix) |->
        [j \in 1..Len(spatial_matrix[i]) |->
            IF totals[i].n = 0 THEN Num(0, 1)
            ELSE NumDiv(spatial_matrix[i][j], totals[i])]]

\* ---- Square matrices of weights ----

MaxMatrixSize == 2

MatrixWeights == {Num(0, 1), Num(1, 1), Num(1, 2)}

InitNormalized ==
    /\ fn = "create_row_normalized_spatial_matrix"
    /\ \E n \in 1..MaxMatrixSize :
          \E m \in [1..n -> [1..n -> MatrixWeights]] :
              args = [spatial_matrix |-> m]
    /\ ret = None
    /\ pc = "call"
    /\ MappingIdle

CreateRowNormalizedSpatialMatrix ==
    /\ pc = "call"
    /\ fn = "create_row_normalized_spatial_matrix"
    /\ ret' = create_row_normalized_spatial_matrix(args.spatial_matrix)
    /\ pc' = "done"
    /\ UNCHANGED <<fn, args, instance, world>>

NextNormalized == CreateRowNormalizedSpatialMatrix

SpecNormalized == InitNormalized /\ [][NextNormalized]_vars

\* C19: after create_row_normalized_spatial_matrix a row whose weights sum
\* to a nonzero total holds each weight divided by the total and sums to 1,
\* and a row of zero weights is a row of zeros.
C19_RowNormalized ==
    (pc = "done" /\ fn = "create_row_normalized_spatial_matrix") =>
        \A i \in 1..Len(ret) :
            LET row == args.spatial_matrix[i]
                total == NumSum(row)
            IN
            /\ total.n # 0 =>
                  /\ NumEq(NumSum(ret[i]), Num(1, 1))
                  /\ \A j \in 1..Len(row) :
                        ret[i][j].n * row[j].d * total.n
                           = row[j].n * total.d * ret[i][j].d
            /\ (\A j \in 1..Len(row) : row[j].n = 0) =>
                  \A j \in 1..Len(row) : ret[i][j].n = 0

\* The rows (1, 1/2) and (0, 0): the first becomes (2/3, 1/3), the second
\* stays (0, 0).
C19_Witness ==
    /\ pc = "done"
    /\ fn = "create_row_normalized_spatial_matrix"
    /\ args.spatial_matrix = <<<<Num(1, 1), Num(1, 2)>>, <<Num(0, 1), Num(0, 1)>>>>
    /\ ret = <<<<Num(2, 3), Num(1, 3)>>, <<Num(0, 1), Num(0, 1)>>>>

\* ---------------------------------------------------------------------
\* create_spatial_adjacency_matrix (geo.py)
\* ---------------------------------------------------------------------

\* The integer square root of n within lo..hi, by bisection.
RECURSIVE SqrtBetween(_, _, _)
SqrtBetween(n, lo, hi) ==
    IF lo >= hi THEN lo
    ELSE LET mid == (lo + hi + 1) \div 2 IN
         IF mid * mid <= n THEN SqrtBetween(n, mid, hi)
         ELSE SqrtBetween(n, lo, mid - 1)

\* The distance in metres of two centroids of the projected frame; the
\* centroids of the model are at whole distances of one another.
centroid_distance(p, q) ==
    LET dx == p[1] - q[1]
        dy == p[2] - q[2]
    IN SqrtBetween(dx * dx + dy * dy, 0, 8192)

\* connection_strength / ((distance / 1000) + eps) with the defaults
\* connection_strength = 1.0 and eps = 0.0001, for a distance in metres.
weight(distance) == Num(10000, 10 * distance + 1)

\* cKDTree.query(coords, k=kk) for point i: kk indices in the order of
\* their distance from i, the points left out no nearer than those
\* returned; points at one distance come in any order, and where there are
\* fewer than kk points the result is padded with the index n (here n + 1,
\* indices being counted from 1).
query(coords, i, kk) ==
    LET n == Len(coords)
        found == IF kk <= n THEN kk ELSE n
        dist(j) == centroid_distance(coords[i], coords[j])
    IN {q \in [1..kk -> 1..(n + 1)] :
           /\ \A m \in 1..kk : (q[m] <= n) <=> (m <= found)
           /\ \A m1, m2 \in 1..found : m1 < m2 =>
                 /\ q[m1] # q[m2]
                 /\ dist(q[m1]) <= dist(q[m2])
           /\ \A j \in 1..n :
                 (\A m \in 1..found : q[m] # j) =>
                     \A m \in 1..found : dist(q[m]) <= dist(j)}

\* The results tree.query(coords, k=kk) can give for the points 1..i.
RECURSIVE queries(_, _, _)
queries(coords, i, kk) ==
    IF i = 0 THEN {<<>>}
    ELSE {Append(rest, q) : rest \in queries(coords, i - 1, kk),
                            q \in query(coords, i, kk)}

\* The pairs the double loop writes a weight for: suburb i and each
\* neighbour of idxs[i][1:], unless it has the name of i or is at
\* distance 0.
linked(suburbs_gdf, idxs) ==
    {<<i, idxs[i][m]>> : i \in 1..Len(suburbs_gdf), m \in 2..Len(idxs[1])}
    \cap {p \in (1..Len(suburbs_gdf)) \X (1..Len(suburbs_gdf)) :
             /\ suburbs_gdf[p[1]].LOCALITY # suburbs_gdf[p[2]].LOCALITY
             /\ centroid_distance(suburbs_gdf[p[1]].centroid,
                                  suburbs_gdf[p[2]].centroid) # 0}

IndexError == [raised |-> TRUE, value |-> 0]

\* The matrix for one result idxs of the tree query, with the result.  A
\* padded index has no name: suburb_names[j] raises IndexError.
adjacency_of(suburbs_gdf, idxs) ==
    LET n == Len(suburbs_gdf)
        pairs == linked(suburbs_gdf, idxs)
    IN IF \E i \in 1..n : \E m \in 2..Len(idxs[i]) : idxs[i][m] > n
       THEN IndexError
       ELSE [raised |-> FALSE,
             value |-> [idxs |-> idxs,
                        matrix |-> [a \in 1..n |-> [b \in 1..n |->
                            IF <<a, b>> \in pairs \/ <<b, a>> \in pairs
                            THEN weight(centroid_distance(suburbs_gdf[a].centroid,
                                                          suburbs_gdf[b].centroid))
                            ELSE Num(0, 1)]]]]

\* The outcomes of create_spatial_adjacency_matrix(suburbs_gdf, k).
create_spatial_adjacency_matrix(suburbs_gdf, k) ==
    LET coords == [i \in 1..Len(suburbs_gdf) |-> suburbs_gdf[i].centroid] IN
    {adjacency_of(suburbs_gdf, idxs) :
        idxs \in queries(coords, Len(coords), k + 1)}

\* ---- Suburbs on a grid ----

MaxSuburbs == 3

\* Centroids in metres, at 0, 3, 4 or 5 km of one another.
Centroids == {<<0, 0>>, <<3000, 0>>, <<0, 4000>>}

LocalityNames == <<"A", "B", "C", "D">>

NeighbourCounts == {1, 2}

InitAdjacency ==
    /\ fn = "create_spatial_adjacency_matrix"
    /\ \E n \in 1..MaxSuburbs, k \in NeighbourCounts :
          \E cs \in [1..n -> Centroids] :
              args = [suburbs_gdf |-> [i \in 1..n |->
                          [LOCALITY |-> LocalityNames[i], centroid |-> cs[i]]],
                      k |-> k]
    /\ ret = None
    /\ pc = "call"
    /\ MappingIdle

CreateSpatialAdjacencyMatrix ==
    /\ pc = "call"
    /\ fn = "create_spatial_adjacency_matrix"
    /\ \E r \in create_spatial_adjacency_matrix(args.suburbs_gdf, args.k) :
          IF r.raised
          THEN pc' = Raised /\ ret' = None
          ELSE pc' = "done" /\ ret' = r.value
    /\ UNCHANGED <<fn, args, instance, world>>

NextAdjacency == CreateSpatialAdjacencyMatrix

SpecAdjacency == InitAdjacency /\ [][NextAdjacency]_vars

\* The k nearest other suburbs of suburb i, as the tree returned them.
Neighbours(i) == {ret.idxs[i][m] : m \in 1..Len(ret.idxs[i])} \ {i}

DistanceOf(i, j) ==
    centroid_distance(args.suburbs_gdf[i].centroid, args.suburbs_gdf[j].centroid)

\* The matrix is symmetric and non-negative with a zero diagonal, and for
\* two suburbs i, j of the set pairs it holds strength / (distance_km + eps)
\* when one is among the k nearest of the other, and 0 otherwise.
AdjacencyOver(pairs) ==
    LET W == ret.matrix IN
    /\ \A i, j \in 1..Len(W) : W[i][j] = W[j][i] /\ W[i][j].n >= 0
    /\ \A i \in 1..Len(W) : W[i][i].n = 0
    /\ \A p \in pairs :
          LET i == p[1]
              j == p[2]
          IN i # j =>
                IF j \in Neighbours(i) \/ i \in Neighbours(j)
                THEN NumEq(W[i][j], Num(10000, 10 * DistanceOf(i, j) + 1))
                ELSE W[i][j].n = 0

\* C20: the matrix create_spatial_adjacency_matrix returns is symmetric and
\* non-negative with a zero diagonal; W[i,j] is strength / (distance_km +
\* eps) when j is among the k nearest centroids of i or i among those of j,
\* and 0 otherwise.
C20_Adjacency ==
    (pc = "done" /\ fn = "create_spatial_adjacency_matrix") =>
        AdjacencyOver((1..Len(ret.matrix)) \X (1..Len(ret.matrix)))

\* Two suburbs whose centroids coincide, each the nearest of the other, and
\* a third one: the weight of the two is 0.
CoincidentCentroidsUnlinked ==
    /\ pc = "done"
    /\ fn = "create_spatial_adjacency_matrix"
    /\ Len(ret.matrix) = 3
    /\ args.k = 1
    /\ DistanceOf(1, 2) = 0
    /\ 2 \in Neighbours(1)
    /\ ret.matrix[1][2].n = 0

\* Between suburbs whose centroids differ the weights are as stated.
AdjacencyWhereApart ==
    (pc = "done" /\ fn = "create_spatial_adjacency_matrix") =>
        AdjacencyOver({p \in (1..Len(ret.matrix)) \X (1..Len(ret.matrix)) :
                          DistanceOf(p[1], p[2]) # 0})

\* With no more than k suburbs the call raises.
RaisedOnFewSuburbs ==
    /\ pc = Raised
    /\ fn = "create_spatial_adjacency_matrix"
    /\ Len(args.suburbs_gdf) = args.k

\* ---------------------------------------------------------------------
\* create_spatial_connectivity_matrix (geo.py)
\* ---------------------------------------------------------------------

\* A panel suburb name is a string of characters; the base suburbs have
\* names of one character.
\* The rows of the base matrix that carry the label name.
base_rows(suburbs_gdf, name) ==
    {i \in 1..Len(suburbs_gdf) : <<suburbs_gdf[i].LOCALITY>> = name}

\* mapping[suburb]: the name itself for a suburb of the base matrix, its
\* hyphen-separated parts otherwise.
parts_of(suburbs_gdf, suburb) ==
    IF base_rows(suburbs_gdf, suburb) # {} THEN <<suburb>>
    ELSE Split(suburb, <<"-">>)

\* A sum of weights is held as the number of times each nonzero weight
\* occurs in it: the weights 10000 / (10 d + 1) of the distances d of the
\* model have denominators without a common factor, so that two sums are
\* equal exactly when they hold the same weights the same number of times.
\* submatrix.values.sum() for the block of the rows ps and the columns qs.
block_sum(base_matrix, ps, qs) ==
    LET n == Len(base_matrix)
        ws == {base_matrix[a][b] : a \in 1..n, b \in 1..n} \ {Num(0, 1)}
    IN [w \in ws |->
          Cardinality({c \in (1..Len(ps)) \X (1..Len(qs)) :
                          base_matrix[ps[c[1]]][qs[c[2]]] = w})]

\* The row of each label of parts, which all have one.
label_rows(suburbs_gdf, parts) ==
    [m \in 1..Len(parts) |-> CHOOSE i \in base_rows(suburbs_gdf, parts[m]) : TRUE]

\* One cell of W_new: base_matrix.loc[parts_i, parts_j] raises KeyError
\* when a label of either list is not in the base matrix, and the cell is
\* then 0; otherwise it is the sum of the block.
cell_of(suburbs_gdf, base_matrix, parts_i, parts_j) ==
    IF \E m \in 1..Len(parts_i) : base_rows(suburbs_gdf, parts_i[m]) = {}
    THEN block_sum(base_matrix, <<>>, <<>>)
    ELSE IF \E m \in 1..Len(parts_j) : base_rows(suburbs_gdf, parts_j[m]) = {}
    THEN block_sum(base_matrix, <<>>, <<>>)
    ELSE block_sum(base_matrix, label_rows(suburbs_gdf, parts_i),
                   label_rows(suburbs_gdf, parts_j))

\* The outcomes of create_spatial_connectivity_matrix: an IndexError of
\* create_spatial_adjacency_matrix is passed on.
create_spatial_connectivity_matrix(suburbs_gdf, panel_data_suburbs, k) ==
    {IF r.raised THEN r
     ELSE [raised |-> FALSE,
           value |-> [base_matrix |-> r.value.matrix,
                      W_new |-> [i \in panel_data_suburbs |->
                                   [j \in panel_data_suburbs |->
                                      cell_of(suburbs_gdf, r.value.matrix,
                                              parts_of(suburbs_gdf, i),
                                              parts_of(suburbs_gdf, j))]]]]
     : r \in create_spatial_adjacency_matrix(suburbs_gdf, k)}

\* ---- Panel suburbs over the suburbs on the grid ----

PanelNames ==
    {<<"A">>, <<"B">>, <<"C">>, <<"A", "-", "B">>, <<"A", "-", "D">>}

InitConnectivity ==
    /\ fn = "create_spatial_connectivity_matrix"
    /\ \E n \in 2..MaxSuburbs, k \in NeighbourCounts :
          \E cs \in [1..n -> Centroids], panel \in SUBSET PanelNames :
              /\ panel # {}
              /\ args = [suburbs_gdf |-> [i \in 1..n |->
                            [LOCALITY |-> LocalityNames[i], centroid |-> cs[i]]],
                         panel_data_suburbs |-> panel,
                         k |-> k]
    /\ ret = None
    /\ pc = "call"
    /\ MappingIdle

CreateSpatialConnectivityMatrix ==
    /\ pc = "call"
    /\ fn = "create_spatial_connectivity_matrix"
    /\ \E r \in create_spatial_connectivity_matrix(
                    args.suburbs_gdf, args.panel_data_suburbs, args.k) :
          IF r.raised
          THEN pc' = Raised /\ ret' = None
          ELSE pc' = "done" /\ ret' = r.value
    /\ UNCHANGED <<fn, args, instance, world>>

NextConnectivity == CreateSpatialConnectivityMatrix

SpecConnectivity == InitConnectivity /\ [][NextConnectivity]_vars

\* parts(x): x itself when it is a base suburb, its hyphen-separated
\* components otherwise.
PartsOf(x) ==
    IF \E i \in 1..Len(args.suburbs_gdf) : <<args.suburbs_gdf[i].LOCALITY>> = x
    THEN {x}
    ELSE {Split(x, <<"-">>)[m] : m \in 1..Len(Split(x, <<"-">>))}

\* The base-matrix cells of the block parts(i) x parts(j), the components
\* absent from the base matrix left out.
BlockCells(i, j) ==
    {c \in (1..Len(ret.base_matrix)) \X (1..Len(ret.base_matrix)) :
        /\ <<args.suburbs_gdf[c[1]].LOCALITY>> \in PartsOf(i)
        /\ <<args.suburbs_gdf[c[2]].LOCALITY>> \in PartsOf(j)}

\* C21: for any two panel suburbs i and j, W_new[i,j] is the sum of the
\* base weights over parts(i) x parts(j), a component that is not in the
\* base matrix contributing 0.
C21_BlockSums ==
    (pc = "done" /\ fn = "create_spatial_connectivity_matrix") =>
        \A i, j \in args.panel_data_suburbs :
            \A w \in DOMAIN ret.W_new[i][j] :
                ret.W_new[i][j][w] =
                    Cardinality({c \in BlockCells(i, j) :
                                    ret.base_matrix[c[1]][c[2]] = w})

\* The panel suburb A-D with D not in the base matrix: its weight with B is
\* 0 although the weight of A and B is not.
CompositeWithAbsentPartZeroed ==
    /\ pc = "done"
    /\ fn = "create_spatial_connectivity_matrix"
    /\ {<<"A", "-", "D">>, <<"B">>} \subseteq args.panel_data_suburbs
    /\ ret.base_matrix[1][2].n # 0
    /\ \A w \in DOMAIN ret.W_new[<<"A", "-", "D">>][<<"B">>] :
          ret.W_new[<<"A", "-", "D">>][<<"B">>][w] = 0

\* For panel suburbs whose components are all in the base matrix, and for
\* those none of whose components is, the sums are as stated.
BlockSumsOfKnownParts ==
    (pc = "done" /\ fn = "create_spatial_connectivity_matrix") =>
        \A i, j \in args.panel_data_suburbs :
            (i # <<"A", "-", "D">> /\ j # <<"A", "-", "D">>) =>
                \A w \in DOMAIN ret.W_new[i][j] :
                    ret.W_new[i][j][w] =
                        Cardinality({c \in BlockCells(i, j) :
                                        ret.base_matrix[c[1]][c[2]] = w})


\* The stacked wayback rows with their suburbs mapped, the table the small
\* suburb filter counts over.
MappedDataset ==
    LET stacked == Concat(args.df_list) IN
    [i \in 1..Len(stacked) |->
        [stacked[i] EXCEPT !.suburb =
            map_suburb_cell(Val(inverted_suburb_mapping), @)]]

\* The number of rows of table df in suburb s.
RowsIn(df, s) == Cardinality({i \in 1..Len(df) : df[i].suburb = s})

\* The rows that survive the filter are those of the suburbs with more
\* than 10 rows in the dataset, in the dataset's order.
FilterByDatasetCount ==
    (pc = "done" /\ fn = "preprocess_wayback_listings") =>
        LET df == MappedDataset
            keep == {i \in 1..Len(df) : RowsIn(df, df[i].suburb) > 10}
        IN /\ Len(ret.filtered) = Cardinality(keep)
           /\ \A i \in 1..Len(ret.filtered) :
                 /\ RowsIn(df, ret.filtered[i].suburb) > 10
                 /\ \E j \in keep : df[j] = ret.filtered[i]
           /\ \A j \in keep : \E i \in 1..Len(ret.filtered) : ret.filtered[i] = df[j]

\* C22: a row survives the small-suburb filter if and only if its canonical
\* suburb has more than 10 rows in the dataset, and every suburb of the
\* returned table has more than 10 rows in the returned table.
C22_SmallSuburbFilter ==
    /\ FilterByDatasetCount
    /\ (pc = "done" /\ fn = "preprocess_wayback_listings") =>
          \A i \in 1..Len(ret.out) : RowsIn(ret.out, ret.out[i].suburb) > 10

\* A suburb of 11 rows in the dataset, two of them observations of one
\* property with a weekly price: the returned table holds 10 rows of it.
ReturnedSuburbAtThreshold ==
    /\ pc = "done"
    /\ fn = "preprocess_wayback_listings"
    /\ Len(MappedDataset) = 11
    /\ Len(ret.filtered) = 11
    /\ Len(ret.before_dedup) = 11
    /\ Len(ret.out) = 10

\* A suburb of exactly 10 rows is dropped, one of 11 rows is kept.
FilterAtThreshold ==
    (pc = "done" /\ fn = "preprocess_wayback_listings") =>
        /\ Len(MappedDataset) = 10 => Len(ret.filtered) = 0
        /\ Len(MappedDataset) = 11 => Len(ret.filtered) = 11

\* ---------------------------------------------------------------------
\* extract_address_from_url on listing slugs (geo.py)
\* ---------------------------------------------------------------------

MaxHouseNumbers == 2

\* What a slug starts with: nothing, a unit number, prefix words with and
\* without a number.
AddressHeads ==
    { <<>>,
      << <<"3">> >>,
      << <<"u", "n", "i", "t">> >>,
      << <<"u", "n", "i", "t">>, <<"1">> >>,
      << <<"3">>, <<"u", "n", "i", "t">>, <<"1">> >>,
      << <<"L", "e", "v", "e", "l">>, <<"2">>, <<"u", "n", "i", "t">>, <<"1">> >> }

HouseNumbers == { <<"4", "7">>, <<"5", "3">>, <<"1", "2", "a">> }

StreetNames ==
    { <<>>,
      << <<"s", "t">> >>,
      << <<"w", "y", "n", "d", "h", "a", "m">>, <<"s", "t">> >> }

\* Suburb, state, postcode and listing id, or a slug that ends early.
SlugTails ==
    { << <<"r", "i", "c", "h", "m", "o", "n", "d">>, <<"v", "i", "c">>,
         <<"3", "1", "2", "1">>, <<"9", "9">> >>,
      << <<"v", "i", "c">> >> }

InitAddress ==
    /\ fn = "extract_address_from_url"
    /\ \/ args = [url |-> None, street |-> <<>>, tail |-> <<>>]
       \/ \E h \in AddressHeads, ns \in SeqsUpTo(HouseNumbers, MaxHouseNumbers),
             nm \in StreetNames, t \in SlugTails :
             args = [url |-> Some(<<"/">> \o Join(h \o ns \o nm \o t, <<"-">>)),
                     street |-> h \o ns \o nm,
                     tail |-> t]
    /\ ret = None
    /\ pc = "call"
    /\ MappingIdle

ExtractAddressFromUrl ==
    /\ pc = "call"
    /\ fn = "extract_address_from_url"
    /\ ret' = extract_address_from_url(args.url)
    /\ pc' = "done"
    /\ UNCHANGED <<fn, args, instance, world>>

NextAddress == ExtractAddressFromUrl

SpecAddress == InitAddress /\ [][NextAddress]_vars

\* The street tokens of the slug without a leading all-digit token.
WithoutUnitNumber ==
    IF args.street # <<>> /\ IsDigitStr(args.street[1])
    THEN Tail(args.street) ELSE args.street

\* The tokens left when the leading prefix words, each with the number that
\* follows it, are taken off.
RECURSIVE WithoutPrefixes(_)
WithoutPrefixes(ts) ==
    IF ts = <<>> THEN ts
    ELSE IF Lower(ts[1]) \notin prefixes_to_remove THEN ts
    ELSE IF Len(ts) >= 2 /\ IsDigitStr(ts[2]) THEN WithoutPrefixes(Tail(Tail(ts)))
    ELSE WithoutPrefixes(Tail(ts))

HasDigit(t) == \E q \in 1..Len(t) : t[q] \in Digits

\* The last token with a digit and the title-cased tokens after it; the
\* title-cased tokens when none has a digit.
NumberAndName(ts) ==
    IF \A i \in 1..Len(ts) : ~HasDigit(ts[i])
    THEN Join([i \in 1..Len(ts) |-> Title(ts[i])], <<" ">>)
    ELSE LET n == CHOOSE i \in 1..Len(ts) :
                      HasDigit(ts[i]) /\ \A j \in (i + 1)..Len(ts) : ~HasDigit(ts[j])
         IN Join(<<ts[n]>> \o [i \in 1..(Len(ts) - n) |-> Title(ts[n + i])], <<" ">>)

\* The address made of a street and the trailing tokens of the slug.
AddressWith(street) ==
    Some(street \o <<",", " ">> \o Title(args.tail[1]) \o <<",", " ">>
            \o Upper(args.tail[2]) \o <<" ">> \o args.tail[3])

\* C23 as stated: suburb, state and postcode are the slug's trailing
\* tokens; a leading all-digit token is dropped, the prefix words with the
\* numbers that follow them are stripped, and of the remaining tokens the
\* last one with a digit is the house number, followed by the title-cased
\* street name.
C23_AddressAsStated ==
    (pc = "done" /\ fn = "extract_address_from_url" /\ Len(args.tail) = 4) =>
        ret = AddressWith(NumberAndName(WithoutPrefixes(WithoutUnitNumber)))

\* C23, amended: as stated when a token remains after the prefix words are
\* stripped; when none remains the street is the slug's street tokens
\* without the leading all-digit token, joined by blanks and unchanged.
C23_AddressOfSlug ==
    (pc = "done" /\ fn = "extract_address_from_url" /\ Len(args.tail) = 4) =>
        ret = AddressWith(
                  IF WithoutPrefixes(WithoutUnitNumber) = <<>>
                  THEN Join(WithoutUnitNumber, <<" ">>)
                  ELSE NumberAndName(WithoutPrefixes(WithoutUnitNumber)))

\* The slug of "unit 1 47 53 wyndham st" gives "53 Wyndham St, Richmond,
\* VIC 3121".
C23_Witness ==
    /\ pc = "done"
    /\ fn = "extract_address_from_url"
    /\ args.street = << <<"u", "n", "i", "t">>, <<"1">>, <<"4", "7">>,
                        <<"5", "3">>, <<"w", "y", "n", "d", "h", "a", "m">>,
                        <<"s", "t">> >>
    /\ ret = Some(<<"5", "3", " ", "W", "y", "n", "d", "h", "a", "m", " ", "S", "t",
                    ",", " ", "R", "i", "c", "h", "m", "o", "n", "d", ",", " ",
                    "V", "I", "C", " ", "3", "1", "2", "1">>)


\* ---------------------------------------------------------------------
\* fetch_osm_poi_features.py: collect_pois_for_listing,
\* create_property_summary and process_multiple_listings.
\*
\* The Overpass reply for a listing is None when overpass_post gave up
\* (RuntimeError after the retries), and otherwise the sequence of the
\* elements found around the listing, each with its amenity tag, its name
\* tag (None when the element has none) and its geodesic distance in metres.
\* A summary row is [PropertyID, cells], cells being a function from the
\* wide column names <<prefix, amenity>> to Options.
\* ---------------------------------------------------------------------

\* rows.append({...}) for every element of the reply: the name defaults to
\* "Unnamed".  None on RuntimeError.
collect_pois_for_listing(listing_row, reply) ==
    IF reply = None
    THEN None
    ELSE Some([e \in 1..Len(reply[1]) |->
                 [PropertyID |-> listing_row.property_id,
                  name       |-> IF reply[1][e].name = None
                                 THEN Some("Unnamed") ELSE reply[1][e].name,
                  amenity    |-> reply[1][e].amenity,
                  distance_m |-> reply[1][e].distance_m]])

\* GroupBy.agg("count"): the number of non-null values of the column.
agg_count(group, col) == Cardinality({e \in DOMAIN group : group[e][col] # None})

\* GroupBy.agg("min") of distance_m.
agg_min(group) ==
    CHOOSE m \in {group[e].distance_m : e \in DOMAIN group} :
        \A e \in DOMAIN group : m <= group[e].distance_m

\* DataFrame.fillna(0) on one cell.
fillna0(cell) == IF cell = None THEN Some(0) ELSE cell

\* create_property_summary(pois_gdf) for the POIs of one property: group by
\* amenity, pivot counts and minimum distances wide, fillna(0) on both, join.
create_property_summary(pois_gdf) ==
    LET amenities == {pois_gdf[e].amenity : e \in 1..Len(pois_gdf)}
        group(a)  == Pick(pois_gdf, {e \in 1..Len(pois_gdf) : pois_gdf[e].amenity = a})
    IN  [PropertyID |-> pois_gdf[1].PropertyID,
         cells |-> [c \in {"count_", "min_dist_"} \X amenities |->
                      IF c[1] = "count_"
                      THEN fillna0(Some(agg_count(group(c[2]), "name")))
                      ELSE fillna0(Some(agg_min(group(c[2]))))]]

\* pd.DataFrame({"PropertyID": [listing["property_id"]]})
empty_summary(listing) ==
    [PropertyID |-> listing.property_id, cells |-> <<>>]

\* pd.concat(all_property_summaries, ignore_index=True): the columns are the
\* union of the frames' columns, a cell of a column a frame lacks is NaN.
concat_summaries(summaries) ==
    LET cols == UNION {DOMAIN summaries[i].cells : i \in 1..Len(summaries)}
    IN  [i \in 1..Len(summaries) |->
           [PropertyID |-> summaries[i].PropertyID,
            cells |-> [c \in cols |->
                         IF c \in DOMAIN summaries[i].cells
                         THEN summaries[i].cells[c] ELSE None]]]

\* listings_gdf.head(max_records) when max_records is truthy.
listings_to_process(listings_gdf, max_records) ==
    IF max_records # None /\ max_records[1] # 0
    THEN SubSeq(listings_gdf, 1, IF max_records[1] < Len(listings_gdf)
                                 THEN max_records[1] ELSE Len(listings_gdf))
    ELSE listings_gdf

\* process_multiple_listings: the table handed to save_poi_data (None when
\* listings_gdf is empty and nothing is written).
process_multiple_listings(listings_gdf, overpass, max_records) ==
    IF Len(listings_gdf) = 0
    THEN None
    ELSE LET todo == listings_to_process(listings_gdf, max_records)
             summary(i) ==
                 LET pois_gdf == collect_pois_for_listing(todo[i], overpass[i])
                 IN  IF pois_gdf # None /\ Len(pois_gdf[1]) > 0
                     THEN create_property_summary(pois_gdf[1])
                     ELSE empty_summary(todo[i])
         IN  Some(concat_summaries([i \in 1..Len(todo) |-> summary(i)]))

MaxPoiListings == 2
MaxPois == 2

PoiElements ==
    [amenity : {"cafe", "school"}, name : {None, Some("n")}, distance_m : {100, 900}]

RECURSIVE PoiSeqs(_)
PoiSeqs(n) ==
    IF n = 0 THEN {<<>>}
    ELSE LET shorter == PoiSeqs(n - 1)
         IN  shorter \cup {Append(s, e) : s \in {t \in shorter : Len(t) = n - 1},
                                          e \in PoiElements}

InitPoi ==
    /\ fn = "process_multiple_listings"
    /\ \E n \in 0..MaxPoiListings, max_records \in {None, Some(0), Some(1)} :
          \E overpass \in [1..n -> {None} \cup {Some(s) : s \in PoiSeqs(MaxPois)}] :
              args = [listings_gdf |-> [i \in 1..n |-> [property_id |-> 100 + i]],
                      overpass     |-> overpass,
                      max_records  |-> max_records]
    /\ ret = None
    /\ pc = "call"
    /\ MappingIdle

ProcessMultipleListings ==
    /\ pc = "call"
    /\ fn = "process_multiple_listings"
    /\ ret' = process_multiple_listings(args.listings_gdf, args.overpass,
                                        args.max_records)
    /\ pc' = "done"
    /\ UNCHANGED <<fn, args, instance, world>>

NextPoi == ProcessMultipleListings

SpecPoi == InitPoi /\ [][NextPoi]_vars

\* The POIs of amenity type a in the reply for the i-th processed listing
\* (none when the fetch failed).
PoisOf(i, a) ==
    IF args.overpass[i] = None THEN {}
    ELSE {e \in 1..Len(args.overpass[i][1]) : args.overpass[i][1][e].amenity = a}

MinDistanceOf(i, a) ==
    CHOOSE m \in {args.overpass[i][1][e].distance_m : e \in PoisOf(i, a)} :
        \A e \in PoisOf(i, a) : m <= args.overpass[i][1][e].distance_m

\* The amenity types occurring in the written table.
TableAmenities == {c[2] : c \in DOMAIN ret[1][1].cells}

PoiWritten == pc = "done" /\ fn = "process_multiple_listings" /\ ret # None

\* C24: in the table written by process_multiple_listings, for every
\* processed property and every amenity type occurring in the table, the
\* count column is the number of POIs of that type found around the property
\* (0 when none, never null) and the min-distance column is the smallest of
\* their distances (no distance when none).
C24_PoiSummary ==
    PoiWritten =>
        \A i \in 1..Len(ret[1]) : \A a \in TableAmenities :
            /\ ret[1][i].cells[<<"count_", a>>] = Some(Cardinality(PoisOf(i, a)))
            /\ ret[1][i].cells[<<"min_dist_", a>>] =
                   IF PoisOf(i, a) = {} THEN None ELSE Some(MinDistanceOf(i, a))

\* A property without a POI of a type that another property of the table
\* has: its count cell is null, not 0.
AbsentAmenityCountNull ==
    /\ PoiWritten
    /\ \E i \in 1..Len(ret[1]) : \E a \in TableAmenities :
          /\ args.overpass[i] # None
          /\ PoisOf(i, a) = {}
          /\ ret[1][i].cells[<<"count_", a>>] = None

\* For the amenity types found around a property both columns are as
\* stated; for the types not found around it both are null.
PoiSummaryOfFoundTypes ==
    PoiWritten =>
        \A i \in 1..Len(ret[1]) : \A a \in TableAmenities :
            IF PoisOf(i, a) # {}
            THEN /\ ret[1][i].cells[<<"count_", a>>] = Some(Cardinality(PoisOf(i, a)))
                 /\ ret[1][i].cells[<<"min_dist_", a>>] = Some(MinDistanceOf(i, a))
            ELSE /\ ret[1][i].cells[<<"count_", a>>] = None
                 /\ ret[1][i].cells[<<"min_dist_", a>>] = None


(***************************************************************************)
(* map_suburb calls on one instance while pickle_spatial_mapping.py may    *)
(* rewrite mapping.pkl                                                     *)
(***************************************************************************)

\* Contents mapping.pkl may have: no entry, or the mapping built from the
\* whole panel and either no locality or all of them.
LazyFiles ==
    {build_mapping({}, {}), build_mapping(PanelPool, {}),
     build_mapping(PanelPool, LocalityPool)}

InitLazy ==
    /\ fn = "map_suburb"
    /\ args = None
    /\ ret = None
    /\ pc = "call"
    /\ mapping_file \in LazyFiles
    /\ suburb_mapping = None
    /\ inverted_suburb_mapping = None
    /\ calls = <<>>
    /\ file_reads = 0
    /\ files = <<>>
    /\ locals = <<>>

\* pickle_spatial_mapping.py main: mapping.pkl is written anew.
PickleSpatialMapping ==
    /\ mapping_file' \in LazyFiles \ {mapping_file}
    /\ UNCHANGED <<fn, args, ret, pc, instance, calls, file_reads, files, locals>>

NextLazy == MapSuburb \/ MapSuburbAgain \/ PickleSpatialMapping

SpecLazy == InitLazy /\ [][NextLazy]_vars

\* C25: the first map_suburb call on an instance reads the mapping file and
\* builds the inverted map from it; once the mapping is loaded no step reads
\* the file again or changes the mapping or the inverted map; every call
\* resolves its name against the inverted map of the instance.
C25_LoadedOnce ==
    [][/\ (suburb_mapping = None /\ calls' # calls)
            => /\ file_reads' = file_reads + 1
               /\ suburb_mapping' = Some(mapping_file)
               /\ inverted_suburb_mapping' =
                      Some(create_inverted_mapping(mapping_file))
       /\ (suburb_mapping = None /\ calls' = calls)
            => /\ file_reads' = file_reads
               /\ suburb_mapping' = None
       /\ suburb_mapping # None
            => /\ file_reads' = file_reads
               /\ suburb_mapping' = suburb_mapping
               /\ inverted_suburb_mapping' = inverted_suburb_mapping
       /\ calls' # calls
            => LET low == Lower(Val(args'))
                   inv == Val(inverted_suburb_mapping')
               IN  ret' = IF low \in DOMAIN inv THEN Some(inv[low]) ELSE Some(low)
      ]_vars

\* Three calls were made with one file read, the file was rewritten after
\* the first call, and the last call resolved a name through the map loaded
\* by the first call, a name the file no longer lists.
C25_Witness ==
    /\ fn = "map_suburb" /\ Len(calls) = 3
    /\ file_reads = 1
    /\ suburb_mapping # None
    /\ suburb_mapping # Some(mapping_file)
    /\ Lower(Val(args)) \in DOMAIN Val(inverted_suburb_mapping)
    /\ Lower(Val(args)) \notin FileVariants
    /\ ret = Some(Val(inverted_suburb_mapping)[Lower(Val(args))])


(***************************************************************************)
(* The two imputations as calls on a DataFrame object                      *)
(* (preprocess.py 262-285, 364-459)                                        *)
(*                                                                         *)
(* A DataFrame is [index, rows]: the index labels and the rows, by         *)
(* position.  A Series is [index, values, view]; view tells a Series that  *)
(* shares its data with the DataFrame it was taken from, so that a write   *)
(* through .loc on it is a write into the DataFrame, from a copy.          *)
(***************************************************************************)

\* df[column_name]
getitem(df, column_name) ==
    [index |-> df.index, values |-> Column(df.rows, column_name), view |-> TRUE]

\* Series.copy() leaving the data shared.
series_copy_Shared(s) == s

\* Series.copy()
series_copy(s) == [s EXCEPT !.view = FALSE]

\* The DataFrame after values were written through the Series s of column c.
written_through(df, c, s, values) ==
    IF s.view
    THEN [df EXCEPT !.rows = [i \in 1..Len(df.rows) |->
                                 [df.rows[i] EXCEPT ![c] = values[i]]]]
    ELSE df

RECURSIVE written_through_all(_, _, _, _)
written_through_all(df, cols, series, values) ==
    IF cols = <<>> THEN df
    ELSE written_through_all(
             written_through(df, Head(cols), series[Head(cols)], values[Head(cols)]),
             Tail(cols), series, values)

\* impute_by_property_type_mode as a call: result = df[column_name].copy(),
\* the fills are written into result, result is returned.
call_impute_by_property_type_mode(df, column_name, property_type_column) ==
    LET result == series_copy(getitem(df, column_name))
        filled == impute_by_property_type_mode(df.rows, column_name,
                                               property_type_column)
    IN  [ret |-> [index |-> result.index,
                  values |-> [c \in {column_name} |-> filled]],
         df  |-> written_through(df, column_name, result, filled)]

\* impute_by_nearest_point as a call: results[col] = df[col].copy() for each
\* column, the fills are written into results, and results is returned (as
\* a DataFrame built from the dict of Series).
call_impute_by_nearest_point(df, column_names) ==
    LET cols    == {column_names[k] : k \in 1..Len(column_names)}
        results == [c \in cols |-> series_copy(getitem(df, c))]
        filled  == impute_by_nearest_point(df.rows, column_names).results
    IN  [ret |-> [index |-> df.index, values |-> filled],
         df  |-> written_through_all(df, column_names, results, filled)]

MaxFrameRows == 2

\* Index labels of the input: a RangeIndex, or the labels left by earlier
\* filtering and sorting (5, 3, 1, ...).
FrameIndexes(n) == {[i \in 1..n |-> i - 1], [i \in 1..n |-> 7 - 2 * i]}

InitFrame ==
    /\ fn \in {"impute_by_property_type_mode", "impute_by_nearest_point"}
    /\ \E n \in 1..MaxFrameRows :
       \E index \in FrameIndexes(n) :
          IF fn = "impute_by_property_type_mode"
          THEN \E rows \in [1..n -> ModeRows] :
                  args = [df |-> [index |-> index, rows |-> rows],
                          column_names |-> <<"bedrooms">>]
          ELSE \E shape \in [1..n -> ImputeShapes], cols \in ImputeColumnLists :
                  args = [df |-> [index |-> index, rows |-> ImputeTable(shape)],
                          column_names |-> cols]
    /\ ret = None
    /\ pc = "call"
    /\ MappingIdle

ImputeModeCall ==
    /\ pc = "call"
    /\ fn = "impute_by_property_type_mode"
    /\ LET out == call_impute_by_property_type_mode(
                      args.df, args.column_names[1], "property_type")
       IN  /\ ret' = out.ret
           /\ args' = [args EXCEPT !.df = out.df]
    /\ pc' = "done"
    /\ UNCHANGED <<fn, instance, world>>

ImputeNearestCall ==
    /\ pc = "call"
    /\ fn = "impute_by_nearest_point"
    /\ LET out == call_impute_by_nearest_point(args.df, args.column_names)
       IN  /\ ret' = out.ret
           /\ args' = [args EXCEPT !.df = out.df]
    /\ pc' = "done"
    /\ UNCHANGED <<fn, instance, world>>

NextFrame == ImputeModeCall \/ ImputeNearestCall

SpecFrame == InitFrame /\ [][NextFrame]_vars

\* C26: a call of impute_by_property_type_mode or impute_by_nearest_point
\* returns the input's index, label for label, with every cell that was
\* non-null in the input holding the input value, and leaves the input
\* DataFrame as it was.
C26_FrameEffect ==
    [][(pc = "call" /\ pc' = "done") =>
          /\ args'.df = args.df
          /\ ret'.index = args.df.index
          /\ \A c \in DOMAIN ret'.values :
                /\ Len(ret'.values[c]) = Len(args.df.rows)
                /\ \A i \in 1..Len(args.df.rows) :
                      NotNull(args.df.rows[i][c]) =>
                          ret'.values[c][i] = args.df.rows[i][c]
      ]_vars

\* Calls that filled a null cell of a table whose index is not a
\* RangeIndex, the input still holding the null.
C26_Witness ==
    /\ pc = "done"
    /\ args.df.index[1] = 5
    /\ \E c \in DOMAIN ret.values : \E i \in 1..Len(args.df.rows) :
          /\ IsNull(args.df.rows[i][c])
          /\ NotNull(ret.values[c][i])
          /\ \E j \in 1..Len(args.df.rows) :
                j # i /\ ret.values[c][j] = args.df.rows[j][c]
                      /\ NotNull(args.df.rows[j][c])


(***************************************************************************)
(* SuburbSnapshotFinder.run, save_progress, load_progress                  *)
(* (find_suburb_snapshots_advanced.py 147-157, 282-385)                    *)
(*                                                                         *)
(* args holds the suburbs of vic_suburbs_postcodes.csv, by position, and   *)
(* what get_wayback_snapshots answers for each.  files holds progress.json *)
(* and the two output files, None for a file that does not exist.  locals  *)
(* holds processed_suburbs, all_snapshots and the loop index of the run    *)
(* under way; calls is the history of the runs: whether each resumed, and  *)
(* the suburbs it processed.                                               *)
(***************************************************************************)

\* "if i % 50 == 0": progress is saved every 50 suburbs.
SaveEvery == 50

\* load_progress(progress_file): [] when the file does not exist.
load_progress(fs) == IF fs.progress = None THEN <<>> ELSE fs.progress[1]

\* save_progress(processed_suburbs, progress_file)
save_progress(fs, processed_suburbs) ==
    [fs EXCEPT !.progress = Some(processed_suburbs)]

\* The rows save_snapshots_to_csv writes: one per snapshot, suburb by suburb.
RECURSIVE flattened_data(_)
flattened_data(all_snapshots) ==
    IF all_snapshots = <<>> THEN <<>>
    ELSE LET suburb_data == Head(all_snapshots) IN
         [k \in 1..Len(suburb_data.snapshots) |->
             [suburb |-> suburb_data.suburb,
              timestamp |-> suburb_data.snapshots[k]]]
         \o flattened_data(Tail(all_snapshots))

\* The end of run: progress.json is removed, and the two output files are
\* written when all_snapshots is not empty.
save_results(fs, all_snapshots) ==
    IF all_snapshots # <<>>
    THEN [progress |-> None,
          csv      |-> Some(flattened_data(all_snapshots)),
          json     |-> Some(all_snapshots)]
    ELSE [fs EXCEPT !.progress = None]

MaxInterrupts == 1

\* How many suburbs the CSV lists, and the positions whose suburb may have
\* snapshots in the archive.
SuburbCounts == {0, 2, 51, 52}

SnapshotPositions == {1, 2, 50, 51}

InitResume ==
    /\ fn = "run"
    /\ \E n \in SuburbCounts, has \in SUBSET SnapshotPositions, resume \in BOOLEAN :
          args = [suburbs |-> [i \in 1..n |-> [suburb |-> i, postcode |-> 3000 + i]],
                  wayback |-> [i \in 1..n |->
                                  IF i \in has THEN <<202300 + i>> ELSE <<>>],
                  resume  |-> resume]
    /\ ret = None
    /\ pc = "call"
    /\ mapping_file = <<>>
    /\ suburb_mapping = None
    /\ inverted_suburb_mapping = None
    /\ calls = <<>>
    /\ file_reads = 0
    /\ files = [progress |-> None, csv |-> None, json |-> None]
    /\ locals = <<>>

\* run(resume=...) up to its loop: the first run of the script, or the run
\* started with --resume after an interruption.
StartRun ==
    /\ pc \in {"call", "interrupted"}
    /\ fn = "run"
    /\ LET resume == IF pc = "call" THEN args.resume ELSE TRUE
           processed_suburbs == IF resume THEN load_progress(files) ELSE <<>>
       IN  IF Len(args.suburbs) = 0
           THEN /\ pc' = "done"
                /\ UNCHANGED <<locals, calls>>
           ELSE /\ locals' = [processed_suburbs |-> processed_suburbs,
                              all_snapshots |-> <<>>,
                              i |-> Len(processed_suburbs)]
                /\ calls' = Append(calls, [resume |-> resume, processed |-> {}])
                /\ pc' = "loop"
    /\ UNCHANGED <<fn, args, ret, instance, mapping_file, file_reads, files>>

\* One pass of the loop body, for the suburb at position i.
ProcessSuburb ==
    /\ pc = "loop"
    /\ locals.i < Len(args.suburbs)
    /\ LET i == locals.i + 1
           suburb_data == args.suburbs[i]
           snapshots == args.wayback[i]
           processed_suburbs == Append(locals.processed_suburbs, suburb_data.suburb)
       IN  /\ locals' = [processed_suburbs |-> processed_suburbs,
                         all_snapshots |->
                             IF snapshots # <<>>
                             THEN Append(locals.all_snapshots,
                                         [suburb |-> suburb_data.suburb,
                                          postcode |-> suburb_data.postcode,
                                          snapshots |-> snapshots])
                             ELSE locals.all_snapshots,
                         i |-> i]
           /\ files' = IF i % SaveEvery = 0
                       THEN save_progress(files, processed_suburbs)
                       ELSE files
           /\ calls' = [calls EXCEPT ![Len(calls)].processed = @ \cup {i}]
    /\ UNCHANGED <<fn, args, ret, pc, instance, mapping_file, file_reads>>

\* The loop is over: clean up progress.json and save the results.
FinishRun ==
    /\ pc = "loop"
    /\ locals.i >= Len(args.suburbs)
    /\ files' = save_results(files, locals.all_snapshots)
    /\ locals' = <<>>
    /\ pc' = "done"
    /\ UNCHANGED <<fn, args, ret, instance, mapping_file, calls, file_reads>>

\* The process is killed during the loop: its variables are lost, the files
\* stay as they are.
Interrupt ==
    /\ pc = "loop"
    /\ Len(calls) <= MaxInterrupts
    /\ locals' = <<>>
    /\ pc' = "interrupted"
    /\ UNCHANGED <<fn, args, ret, instance, mapping_file, calls, file_reads, files>>

NextResume == StartRun \/ ProcessSuburb \/ FinishRun \/ Interrupt

SpecResume == InitResume /\ [][NextResume]_vars

\* A run that was interrupted has been followed by a run started with
\* resume=True, which has finished.
ResumedAndFinished ==
    fn = "run" /\ pc = "done" /\ Len(calls) = 2 /\ calls[2].resume

\* C27: after an interrupted run and a resumed run that finished, the JSON
\* and CSV outputs hold the snapshots of every suburb of the list that has
\* snapshots, and every suburb was processed in one of the two runs.
C27_Resume ==
    ResumedAndFinished =>
        /\ \A i \in 1..Len(args.suburbs) :
              args.wayback[i] # <<>> =>
                  /\ files.json # None
                  /\ \E e \in 1..Len(files.json[1]) :
                        /\ files.json[1][e].suburb = args.suburbs[i].suburb
                        /\ files.json[1][e].snapshots = args.wayback[i]
                  /\ files.csv # None
                  /\ \A k \in 1..Len(args.wayback[i]) :
                        \E r \in 1..Len(files.csv[1]) :
                            files.csv[1][r] = [suburb |-> args.suburbs[i].suburb,
                                               timestamp |-> args.wayback[i][k]]
        /\ \A i \in 1..Len(args.suburbs) :
              i \in calls[1].processed \cup calls[2].processed

\* The first run was interrupted after progress was saved; the resumed run
\* wrote an output that lacks a suburb the first run had found snapshots
\* for.
ResumedOutputLacksEarlierSuburb ==
    /\ ResumedAndFinished
    /\ files.json # None
    /\ \E i \in calls[1].processed :
          /\ args.wayback[i] # <<>>
          /\ \A e \in 1..Len(files.json[1]) :
                files.json[1][e].suburb # args.suburbs[i].suburb

\* What the resumed run does write: the snapshots of the suburbs it
\* processed itself; and no suburb is left unprocessed by both runs.
ResumedOutputOfSecondRun ==
    ResumedAndFinished =>
        /\ \A i \in 1..Len(args.suburbs) :
              (args.wayback[i] # <<>> /\ i \in calls[2].processed) =>
                  /\ files.json # None
                  /\ \E e \in 1..Len(files.json[1]) :
                        /\ files.json[1][e].suburb = args.suburbs[i].suburb
                        /\ files.json[1][e].snapshots = args.wayback[i]
        /\ \A i \in 1..Len(args.suburbs) :
              i \in calls[1].processed \cup calls[2].processed


(***************************************************************************)
(* JsonWriterPipeline (domain_scraper/pipelines.py 75-115)                 *)
(*                                                                         *)
(* The text of domain_rental_listings.json is held as the sequence of the  *)
(* pieces written to it, each a pair <<kind, text>>: the brackets, the     *)
(* comma, and the json.dumps text of an item.  locals holds self.items,    *)
(* calls the items handed to process_item, in order.                       *)
(***************************************************************************)

\* json.dumps(dict(item), indent=2, ensure_ascii=False)
json_dumps(item) == <<"object", item>>

\* self.file.write(piece)
file_write(content, piece) == Append(content, piece)

\* json.loads of the file: the items of the array, None when the text is
\* not a JSON array of objects separated by commas.
json_loads(content) ==
    IF Len(content) < 2 \/ content[1][1] # "[" \/ content[Len(content)][1] # "]"
    THEN None
    ELSE LET body == SubSeq(content, 2, Len(content) - 1) IN
         IF body = <<>> THEN Some(<<>>)
         ELSE IF /\ Len(body) % 2 = 1
                 /\ \A k \in 1..Len(body) :
                       body[k][1] = IF k % 2 = 1 THEN "object" ELSE ","
              THEN Some([k \in 1..((Len(body) + 1) \div 2) |-> body[2 * k - 1][2]])
              ELSE None

MaxItems == 4

ScrapedItems == {"a", "b", "c"}

InitPipeline ==
    /\ fn = "JsonWriterPipeline"
    /\ args = None
    /\ ret = None
    /\ pc = "call"
    /\ mapping_file = <<>>
    /\ suburb_mapping = None
    /\ inverted_suburb_mapping = None
    /\ calls = <<>>
    /\ file_reads = 0
    /\ files = None
    /\ locals = [items |-> <<>>]

\* open_spider: the file is opened for writing and the opening bracket
\* written.
OpenSpider ==
    /\ pc = "call"
    /\ fn = "JsonWriterPipeline"
    /\ files' = Some(file_write(<<>>, <<"[", "">>))
    /\ pc' = "open"
    /\ UNCHANGED <<fn, args, ret, instance, mapping_file, calls, file_reads, locals>>

\* process_item(item, spider)
ProcessItem ==
    /\ pc = "open"
    /\ fn = "JsonWriterPipeline"
    /\ Len(calls) < MaxItems
    /\ \E item \in ScrapedItems :
          /\ files' = IF locals.items # <<>>
                      THEN Some(file_write(file_write(files[1], <<",", "">>),
                                           json_dumps(item)))
                      ELSE Some(file_write(files[1], json_dumps(item)))
          /\ locals' = [items |-> Append(locals.items, item)]
          /\ calls' = Append(calls, item)
          /\ args' = Some(item)
          /\ ret' = Some(item)
    /\ UNCHANGED <<fn, pc, instance, mapping_file, file_reads>>

\* close_spider: the last item is written when there is one, then the
\* closing bracket.
CloseSpider ==
    /\ pc = "open"
    /\ fn = "JsonWriterPipeline"
    /\ LET last == IF locals.items # <<>>
                   THEN file_write(files[1],
                                   json_dumps(locals.items[Len(locals.items)]))
                   ELSE files[1]
       IN  files' = Some(file_write(last, <<"]", "">>))
    /\ pc' = "done"
    /\ UNCHANGED <<fn, args, ret, instance, mapping_file, calls, file_reads, locals>>

NextPipeline == OpenSpider \/ ProcessItem \/ CloseSpider

SpecPipeline == InitPipeline /\ [][NextPipeline]_vars

PipelineClosed == fn = "JsonWriterPipeline" /\ pc = "done"

\* C28: after open_spider, any number of process_item calls and
\* close_spider, the file is a well-formed JSON array holding exactly the
\* items processed, each once, in the order processed.
C28_JsonArray ==
    PipelineClosed => json_loads(files[1]) = Some(calls)

\* After two items the file ends with the second item written twice with no
\* comma between, and is no JSON array.
LastItemWrittenTwice ==
    /\ PipelineClosed
    /\ Len(calls) = 2
    /\ files[1] = <<(<<"[", "">>), json_dumps(calls[1]), (<<",", "">>),
                    json_dumps(calls[2]), json_dumps(calls[2]), (<<"]", "">>)>>
    /\ json_loads(files[1]) = None

\* Without any item the file is the empty array; with items it is never a
\* JSON array.
JsonArrayOnlyWhenEmpty ==
    PipelineClosed =>
        json_loads(files[1]) = IF calls = <<>> THEN Some(<<>>) ELSE None


(***************************************************************************)
(* split_into_batches and merge_batches (preprocess.py 287-333, 461-533)   *)
(*                                                                         *)
(* files is the output directory: a set of <<file name, content>>, the     *)
(* content being the rows of the CSV, each field as text.  calls is the   *)
(* history of the split_into_batches calls on the directory.               *)
(***************************************************************************)

\* DataFrame.to_csv of one row: the integer in digits, a null as the empty
\* field.
to_csv(r) ==
    [property_id |-> IntToStr(r.property_id),
     suburb      |-> IF r.suburb = None THEN <<>> ELSE Val(r.suburb)]

\* pd.read_csv of one row: the digits as an integer, the empty field as a
\* null.
read_csv(f) ==
    [property_id |-> DigitsToInt(f.property_id),
     suburb      |-> IF f.suburb = <<>> THEN None ELSE Some(f.suburb)]

\* f"{n:04d}"
zero_padded(n) ==
    LET s == IntToStr(n) IN
    IF Len(s) >= 4 THEN s ELSE [k \in 1..(4 - Len(s)) |-> "0"] \o s

\* f"batch_{i+1:04d}.csv"
filename(i) ==
    <<"b", "a", "t", "c", "h", "_">> \o zero_padded(i + 1) \o <<".", "c", "s", "v">>

\* num_batches = (len(df) + batch_size - 1) // batch_size
num_batches(df, batch_size) == (Len(df) + batch_size - 1) \div batch_size

\* df.iloc[start_idx:end_idx] of batch i.
batch_df(df, batch_size, i) ==
    LET start_idx == i * batch_size
        end_idx   == IF (i + 1) * batch_size < Len(df)
                     THEN (i + 1) * batch_size ELSE Len(df)
    IN  SubSeq(df, start_idx + 1, end_idx)

\* open(filepath, "w"): a file of that name is replaced.
write_file(dir, name, content) ==
    {f \in dir : f[1] # name} \cup {<<name, content>>}

\* The directory after the loop has written the batches i, i + 1, ...
RECURSIVE write_batches(_, _, _, _)
write_batches(dir, df, batch_size, i) ==
    IF i >= num_batches(df, batch_size) THEN dir
    ELSE write_batches(
             write_file(dir, filename(i),
                        [k \in 1..Len(batch_df(df, batch_size, i)) |->
                            to_csv(batch_df(df, batch_size, i)[k])]),
             df, batch_size, i + 1)

\* split_into_batches(df, batch_size, output_dir): the directory afterwards
\* and the list of files returned.
split_into_batches(dir, df, batch_size) ==
    [files       |-> write_batches(dir, df, batch_size, 0),
     batch_files |-> [i \in 1..num_batches(df, batch_size) |-> filename(i - 1)]]

\* The content of the file called name.
file_content(dir, name) == (CHOOSE f \in dir : f[1] = name)[2]

\* merge_batches(input_dir): every *.csv of the directory in sorted order,
\* read and concatenated.
merge_batches(dir) ==
    LET csv_files == SortedStrings({f[1] : f \in dir}) IN
    IF csv_files = <<>> THEN ValueError
    ELSE [raised |-> FALSE,
          value  |-> Concat([n \in 1..Len(csv_files) |->
                       [k \in 1..Len(file_content(dir, csv_files[n])) |->
                           read_csv(file_content(dir, csv_files[n])[k])]])]

MaxBatchRows == 3
MaxBatchSize == 3
MaxSplits == 2

BatchRows ==
    {[property_id |-> 1, suburb |-> Some(<<"a">>)],
     [property_id |-> 20, suburb |-> None],
     [property_id |-> 3, suburb |-> Some(<<"b">>)]}

InitBatches ==
    /\ fn = "split_into_batches"
    /\ args = None
    /\ ret = None
    /\ pc = "call"
    /\ mapping_file = <<>>
    /\ suburb_mapping = None
    /\ inverted_suburb_mapping = None
    /\ calls = <<>>
    /\ file_reads = 0
    /\ files = {}
    /\ locals = <<>>

SplitIntoBatches ==
    /\ pc \in {"call", "split"}
    /\ fn = "split_into_batches"
    /\ Len(calls) < MaxSplits
    /\ \E n \in 0..MaxBatchRows, batch_size \in 1..MaxBatchSize :
       \E df \in [1..n -> BatchRows] :
          LET out == split_into_batches(files, df, batch_size) IN
          /\ args' = [df |-> df, batch_size |-> batch_size]
          /\ files' = out.files
          /\ ret' = Some(out.batch_files)
          /\ calls' = Append(calls, [df |-> df, batch_size |-> batch_size])
    /\ pc' = "split"
    /\ UNCHANGED <<fn, instance, mapping_file, file_reads, locals>>

MergeBatches ==
    /\ pc = "split"
    /\ fn = "split_into_batches"
    /\ fn' = "merge_batches"
    /\ LET r == merge_batches(files) IN
       IF r.raised
       THEN pc' = Raised /\ ret' = None
       ELSE pc' = "done" /\ ret' = Some(r.value)
    /\ UNCHANGED <<args, instance, world>>

NextBatches == SplitIntoBatches \/ MergeBatches

SpecBatches == InitBatches /\ [][NextBatches]_vars

\* The rows of the files a split returned, file after file.
RowsOfReturned ==
    Concat([n \in 1..Len(ret[1]) |->
              [k \in 1..Len(file_content(files, ret[1][n])) |->
                  read_csv(file_content(files, ret[1][n])[k])]])

\* The files a split returned are ceil(len(df) / batch_size) files of at
\* most batch_size rows each, holding the rows of df in order.
SplitIsPartition ==
    (fn = "split_into_batches" /\ pc = "split") =>
        /\ Len(ret[1]) * args.batch_size >= Len(args.df)
        /\ (Len(ret[1]) - 1) * args.batch_size < Len(args.df) \/ Len(ret[1]) = 0
        /\ \A n \in 1..Len(ret[1]) :
              /\ Len(file_content(files, ret[1][n])) <= args.batch_size
              /\ Len(file_content(files, ret[1][n])) >= 1
        /\ RowsOfReturned = args.df

\* C29: split_into_batches writes ceil(len(df) / batch_size) files of at
\* most batch_size consecutive rows that partition df, and merge_batches on
\* the directory afterwards returns exactly the rows of df in their order,
\* whatever the batch size and whatever batch files earlier calls left in
\* the directory.
C29_SplitMerge ==
    /\ SplitIsPartition
    /\ fn = "merge_batches" => (pc = "done" /\ ret = Some(args.df))

\* An earlier split left more batch files than the last one wrote, and the
\* merge returned the rows of the last df followed by rows of the earlier
\* one.
StaleBatchMerged ==
    /\ fn = "merge_batches" /\ pc = "done"
    /\ Len(calls) = 2
    /\ Len(ret[1]) > Len(args.df)
    /\ SubSeq(ret[1], 1, Len(args.df)) = args.df
    /\ ret[1][Len(ret[1])] = calls[1].df[Len(calls[1].df)]

\* The merge of an empty df raises.
EmptyMergeRaises ==
    fn = "merge_batches" /\ pc = Raised /\ args.df = <<>>

\* On a directory that held no file before the split, the merge returns
\* the rows of a df that is not empty.
MergeOfFreshDirectory ==
    (fn = "merge_batches" /\ Len(calls) = 1 /\ args.df # <<>>) =>
        (pc = "done" /\ ret = Some(args.df))


(***************************************************************************)
(* The stratum key of combine_and_sample_listings (preprocess.py           *)
(* 1573-1585) on tables whose property types and suburbs are free text     *)
(***************************************************************************)
MaxStrataRows == 3

\* Property types and suburbs as scraped: text that may hold an underscore.
StrataTypes == {<<"a">>, <<"a", "_", "b">>}

StrataSuburbs == {<<"c">>, <<"b", "_", "c">>}

StrataShapes == [property_type : StrataTypes, suburb : StrataSuburbs, bedrooms : {2, 3}]

\* The rows of the shapes: one property each, all observed in one quarter.
StrataTable(shapes) ==
    [i \in 1..Len(shapes) |->
        [property_id |-> i, rental_price |-> 400 + i,
         suburb |-> Some(shapes[i].suburb),
         property_type |-> shapes[i].property_type,
         bedrooms |-> Some(shapes[i].bedrooms),
         bathrooms |-> Some(1), car_spaces |-> Some(1),
         year |-> 2024, quarter |-> 1]]

InitStrata ==
    /\ fn = "combine_and_sample_listings"
    /\ \E n \in 0..MaxStrataRows, r \in StrataRatios :
       \E shapes \in [1..n -> StrataShapes], k \in 0..n :
           LET t == StrataTable(shapes) IN
           args = [live_df |-> SubSeq(t, 1, k),
                   wayback_df |-> SubSeq(t, k + 1, Len(t)),
                   sample_ratio |-> r]
    /\ ret = None
    /\ pc = "call"
    /\ MappingIdle

NextStrata == CombineAndSampleListings

SpecStrata == InitStrata /\ [][NextStrata]_vars

\* Two rows agree on property_type, suburb and bedrooms.
SameTriple(a, b) ==
    /\ a.property_type = b.property_type
    /\ a.suburb = b.suburb
    /\ a.bedrooms = b.bedrooms

HasUnderscore(s) == \E k \in 1..Len(s) : s[k] = "_"

Sampled == fn = "combine_and_sample_listings" /\ pc = "done"

\* C30: two rows of the deduplicated table are in the same stratum, that
\* is, have the same strata key, exactly when they agree on property_type,
\* suburb and bedrooms.
C30_StratumIdentity ==
    Sampled =>
        \A i \in 1..Len(ret.deduped) : \A j \in 1..Len(ret.deduped) :
            (j \in StratumOf(ret.deduped, i))
                <=> SameTriple(ret.deduped[i], ret.deduped[j])

\* Two rows that differ in property type and suburb share a key, and the
\* sample at 0.5 kept one of the two where each, a stratum of one row,
\* is to be kept.
DistinctTriplesSampledTogether ==
    /\ Sampled
    /\ args.sample_ratio = [n |-> 1, d |-> 2]
    /\ Len(ret.deduped) = 2
    /\ ~SameTriple(ret.deduped[1], ret.deduped[2])
    /\ strata(ret.deduped[1]) = strata(ret.deduped[2])
    /\ Cardinality(ret.out) = 1

\* Rows that agree on the three columns always share a key, and rows whose
\* property type and suburb hold no underscore share a key only when they
\* agree on the three columns.
StratumIdentityWithoutUnderscore ==
    Sampled =>
        \A i \in 1..Len(ret.deduped) : \A j \in 1..Len(ret.deduped) :
            LET a == ret.deduped[i]
                b == ret.deduped[j]
            IN  /\ SameTriple(a, b) => j \in StratumOf(ret.deduped, i)
                /\ (/\ ~HasUnderscore(a.property_type) /\ ~HasUnderscore(Val(a.suburb))
                    /\ ~HasUnderscore(b.property_type) /\ ~HasUnderscore(Val(b.suburb))
                    /\ j \in StratumOf(ret.deduped, i))
                   => SameTriple(a, b)

====
